---- MODULE Spec2Model ----
(***************************************************************************)
(* Dependency-resolution core of aurman (src/aurman/classes.py):           *)
(* Package.solutions_for_dep_problem, Package.dep_solving and the System   *)
(* index with its hypothetical append.                                     *)
(*                                                                         *)
(* Strings are modelled as sequences of one-character strings, so that a   *)
(* dependency atom such as "B>=2" is <<"B", ">", "=", "2">> and is really  *)
(* parsed; a package name is the sequence of its characters.               *)
(***************************************************************************)
EXTENDS Integers, Sequences, FiniteSets, TLC

(***************************************************************************)
(* Generic helpers on sequences (Python list idioms).                      *)
(***************************************************************************)
Range(s) == {s[i] : i \in DOMAIN s}

\* the elements of s that satisfy Test, in order (a list comprehension)
SelectSeqIdx(s, keep) ==
    LET F[i \in 0..Len(s)] ==
          IF i = 0 THEN <<>>
          ELSE IF i \in keep THEN Append(F[i - 1], s[i]) ELSE F[i - 1]
    IN F[Len(s)]

\* the one element of a singleton: {e(x) : x \in {v}} binds x to the value of v
Only(S) == CHOOSE x \in S : TRUE

Min(S) == CHOOSE x \in S : \A y \in S : x <= y

(***************************************************************************)
(* aurman.utilities: atoms "name[op version]".                             *)
(***************************************************************************)
OpChars == {"<", ">", "="}

Digits == <<"0", "1", "2", "3", "4", "5", "6", "7", "8", "9">>

\* positions of s holding a comparison character
OpPositions(s) == {i \in DOMAIN s : s[i] \in OpChars}

\* the atom s cut at position i, where its operator of n characters starts
SplitAt(s, i, n) ==
    <<SubSeq(s, 1, i - 1), SubSeq(s, i, i + n - 1), SubSeq(s, i + n, Len(s))>>

\* the length of the operator that starts at position i: >=, <=, == win over
\* >, <, =
OpLen(s, i) == IF i + 1 <= Len(s) /\ s[i + 1] = "=" THEN 2 ELSE 1

SplitFirst(s, i) == SplitAt(s, i, OpLen(s, i))

\* (name, cmp, version) of an atom: split at the first comparison operator
split_name_with_versioning(s) ==
    IF OpPositions(s) = {} THEN <<s, <<>>, <<>>>>
    ELSE SplitFirst(s, Min(OpPositions(s)))

strip_versioning_from_name(s) == split_name_with_versioning(s)[1]

DigitVal(c) == (CHOOSE i \in DOMAIN Digits : Digits[i] = c) - 1

\* the number a version string of decimal digits denotes
VerNum(v) ==
    LET F[i \in 0..Len(v)] == IF i = 0 THEN 0 ELSE 10 * F[i - 1] + DigitVal(v[i])
    IN F[Len(v)]

\* v1 op v2 under the version ordering (single numeric segment)
version_comparison(v1, op, v2) ==
    CASE op = <<"<">>      -> VerNum(v1) < VerNum(v2)
      [] op = <<"<", "=">> -> VerNum(v1) <= VerNum(v2)
      [] op = <<"=">>      -> VerNum(v1) = VerNum(v2)
      [] op = <<"=", "=">> -> VerNum(v1) = VerNum(v2)
      [] op = <<">", "=">> -> VerNum(v1) >= VerNum(v2)
      [] op = <<">">>      -> VerNum(v1) > VerNum(v2)
      [] OTHER             -> FALSE

(***************************************************************************)
(* Package (classes.py 118-294).                                           *)
(***************************************************************************)
REPO_PACKAGE == "REPO_PACKAGE"
AUR_PACKAGE == "AUR_PACKAGE"
DEVEL_PACKAGE == "DEVEL_PACKAGE"
PACKAGE_NOT_REPO_NOT_AUR == "PACKAGE_NOT_REPO_NOT_AUR"

\* Package.__init__; a field that is None in the source is the empty list
Package(name, version, type_of, depends, provides, conflicts) ==
    [name |-> name, version |-> version, type_of |-> type_of,
     depends |-> depends, makedepends |-> <<>>, checkdepends |-> <<>>,
     provides |-> provides, conflicts |-> conflicts, required_by |-> <<>>]

\* Package.__eq__: name and version only
PkgEq(p, q) == p.name = q.name /\ p.version = q.version

\* "p in list" under Package.__eq__
PkgIn(p, s) == \E i \in DOMAIN s : PkgEq(s[i], p)

\* list.index(p): the first position
PkgIndex(p, s) == Min({i \in DOMAIN s : PkgEq(s[i], p)})

relevant_deps(p) == p.depends \o p.makedepends \o p.checkdepends

(***************************************************************************)
(* System (classes.py 724-1009).  all_packages_dict is a Python dict: it   *)
(* is kept as the list of its values in insertion order, with unique names.*)
(* provides_dict and conflicts_dict map a stripped name to the list of the *)
(* packages naming it, one entry per naming.                               *)
(***************************************************************************)
\* dict.get(key, []) for the two reverse dicts
DictGet(dict, key) == IF key \in DOMAIN dict THEN dict[key] ELSE <<>>

\* name in self.all_packages_dict
HasName(sys, name) == \E i \in DOMAIN sys.all_packages_dict : sys.all_packages_dict[i].name = name

\* self.all_packages_dict[name]
ByName(sys, name) ==
    sys.all_packages_dict[CHOOSE i \in DOMAIN sys.all_packages_dict : sys.all_packages_dict[i].name = name]

\* k copies of x
Rep(x, k) == [i \in 1..k |-> x]

\* the list of a name is set to the packages of this call that mention it
set_in_x_dict(dict, packages, dict_name) ==
    LET New == UNION {{strip_versioning_from_name(packages[i][dict_name][j]) :
                         j \in DOMAIN packages[i][dict_name]} : i \in DOMAIN packages}
        Added(n) ==
          SelectSeqIdx(packages,
                       {i \in DOMAIN packages :
                          \E j \in DOMAIN packages[i][dict_name] :
                             strip_versioning_from_name(packages[i][dict_name][j]) = n})
    IN [n \in (DOMAIN dict) \cup New |-> IF n \in New THEN Added(n) ELSE dict[n]]

\* System.__append_to_x_dict: every package is appended to the list of each
\* stripped name its provides (conflicts) mention, once per mention
append_to_x_dict(dict, packages, dict_name) ==
    LET Mentions(p, n) ==
          Cardinality({j \in DOMAIN p[dict_name] : strip_versioning_from_name(p[dict_name][j]) = n})
        New == UNION {{strip_versioning_from_name(packages[i][dict_name][j]) :
                         j \in DOMAIN packages[i][dict_name]} : i \in DOMAIN packages}
        Added(n) ==
          LET F[i \in 0..Len(packages)] ==
                IF i = 0 THEN <<>> ELSE F[i - 1] \o Rep(packages[i], Mentions(packages[i], n))
          IN F[Len(packages)]
    IN [n \in (DOMAIN dict) \cup New |-> DictGet(dict, n) \o Added(n)]

\* the state System.__init__ sets before it appends
EmptySystem ==
    [all_packages_dict |-> <<>>, provides_dict |-> <<>>, conflicts_dict |-> <<>>, raised |-> FALSE]

\* the packages given replace the ones the system holds
ReplacePackages(sys, packages) ==
    [all_packages_dict |-> packages,
     provides_dict |-> append_to_x_dict(sys.provides_dict, packages, "provides"),
     conflicts_dict |-> append_to_x_dict(sys.conflicts_dict, packages, "conflicts"),
     raised |-> sys.raised]

\* only the names the system held before the call are refused
AppendUnlessHeld(sys, packages) ==
    IF sys.raised THEN sys
    ELSE IF \E i \in DOMAIN packages : HasName(sys, packages[i].name)
    THEN [sys EXCEPT !.raised = TRUE]
    ELSE [all_packages_dict |-> sys.all_packages_dict \o packages,
          provides_dict |-> append_to_x_dict(sys.provides_dict, packages, "provides"),
          conflicts_dict |-> append_to_x_dict(sys.conflicts_dict, packages, "conflicts"),
          raised |-> FALSE]

\* System.append_packages: InvalidInput (raised) when a name is already a key,
\* a name met earlier in the same call included; the packages before the
\* first such one are keys by then, the two reverse dicts are not touched
append_packages(sys, packages) ==
    LET Known(i) == \/ HasName(sys, packages[i].name)
                    \/ \E j \in 1..(i - 1) : packages[j].name = packages[i].name
    IN IF sys.raised THEN sys
       ELSE IF \E i \in DOMAIN packages : Known(i)
       THEN [sys EXCEPT !.all_packages_dict =
                           @ \o SubSeq(packages, 1, Min({i \in DOMAIN packages : Known(i)}) - 1),
                        !.raised = TRUE]
       ELSE [all_packages_dict |-> sys.all_packages_dict \o packages,
             provides_dict |-> append_to_x_dict(sys.provides_dict, packages, "provides"),
             conflicts_dict |-> append_to_x_dict(sys.conflicts_dict, packages, "conflicts"),
             raised |-> FALSE]

\* System.__init__
System(packages) == append_packages(EmptySystem, packages)

\* the package named like the dep, whatever its version
NameMatchAnyVersion(sys, dep_name, dep_cmp, dep_version) ==
    IF HasName(sys, dep_name) THEN <<ByName(sys, dep_name)>> ELSE <<>>

\* lines 835-840: the package named like the dep, if its version fits
NameMatch(sys, dep_name, dep_cmp, dep_version) ==
    IF ~HasName(sys, dep_name) THEN <<>>
    ELSE IF dep_cmp = <<>> THEN <<ByName(sys, dep_name)>>
    ELSE IF version_comparison(ByName(sys, dep_name).version, dep_cmp, dep_version)
    THEN <<ByName(sys, dep_name)>>
    ELSE <<>>

\* lines 850-861: whether this provide of package makes provided_by append it
ProvideHit(package, pr, dep_name, dep_cmp, dep_version) ==
    /\ pr[1] = dep_name
    /\ \/ dep_cmp = <<>>
       \/ (pr[2] = <<"=">> \/ pr[2] = <<"=", "=">>)
            /\ version_comparison(pr[3], dep_cmp, dep_version)
       \/ pr[2] = <<>> /\ version_comparison(package.version, dep_cmp, dep_version)

\* lines 849-861: the appends one package causes, one per provide that fits
ProvideHits(package, dep_name, dep_cmp, dep_version) ==
    Rep(package,
        Cardinality({j \in DOMAIN package.provides :
                       ProvideHit(package, split_name_with_versioning(package.provides[j]),
                                  dep_name, dep_cmp, dep_version)}))

\* lines 842-861: the loop over provides_dict[dep_name]
ProvidersLoop(possible_packages, by_name, dep_name, dep_cmp, dep_version) ==
    LET F[i \in 0..Len(possible_packages)] ==
          IF i = 0 THEN by_name
          ELSE IF PkgIn(possible_packages[i], F[i - 1]) THEN F[i - 1]
               ELSE F[i - 1] \o ProvideHits(possible_packages[i], dep_name, dep_cmp, dep_version)
    IN F[Len(possible_packages)]

ProvidedBySplit(sys, sp) ==
    ProvidersLoop(DictGet(sys.provides_dict, sp[1]), NameMatch(sys, sp[1], sp[2], sp[3]),
                  sp[1], sp[2], sp[3])

\* System.provided_by
provided_by(system, dep) ==
    Only({ProvidedBySplit(sys, sp) : sys \in {system}, sp \in {split_name_with_versioning(dep)}})

\* lines 877-880: the package of the same name in another version
SameNameConflict(sys, package) ==
    IF ~HasName(sys, package.name) THEN <<>>
    ELSE IF package.version # ByName(sys, package.name).version
    THEN <<ByName(sys, package.name)>>
    ELSE <<>>

\* lines 883-896: one conflict that package declares, c its split
DeclaredStep(sys, c, found) ==
    IF ~HasName(sys, c[1]) THEN found
    ELSE IF PkgIn(ByName(sys, c[1]), found) THEN found
    ELSE IF c[2] = <<>> THEN Append(found, ByName(sys, c[1]))
    ELSE IF version_comparison(ByName(sys, c[1]).version, c[2], c[3])
    THEN Append(found, ByName(sys, c[1]))
    ELSE found

\* lines 882-896
DeclaredConflicts(sys, package, same_name) ==
    LET G[i \in 0..Len(package.conflicts)] ==
          IF i = 0 THEN same_name
          ELSE DeclaredStep(sys, split_name_with_versioning(package.conflicts[i]), G[i - 1])
    IN G[Len(package.conflicts)]

\* lines 906-914: whether this conflict of another package hits package
ConflictHit(c, package) ==
    /\ c[1] = package.name
    /\ \/ c[2] = <<>>
       \/ version_comparison(package.version, c[2], c[3])

\* the conflicts other packages declare are not looked at
NoConflictHits(q, package) == <<>>

\* lines 905-914: the appends one declaring package causes
ConflictHits(q, package) ==
    Rep(q, Cardinality({j \in DOMAIN q.conflicts :
                          ConflictHit(split_name_with_versioning(q.conflicts[j]), package)}))

\* lines 898-914: the loop over conflicts_dict[name]
DeclaringLoop(possible_conflict_packages, declared, package) ==
    LET H[i \in 0..Len(possible_conflict_packages)] ==
          IF i = 0 THEN declared
          ELSE IF PkgIn(possible_conflict_packages[i], H[i - 1]) THEN H[i - 1]
               ELSE H[i - 1] \o ConflictHits(possible_conflict_packages[i], package)
    IN H[Len(possible_conflict_packages)]

\* System.conflicting_with
conflicting_with(system, package) ==
    Only({DeclaringLoop(DictGet(sys.conflicts_dict, package.name),
                        DeclaredConflicts(sys, package, SameNameConflict(sys, package)),
                        package) : sys \in {system}})

\* System.are_all_deps_fulfilled
are_all_deps_fulfilled(sys, package) ==
    \A i \in DOMAIN relevant_deps(package) : provided_by(sys, relevant_deps(package)[i]) # <<>>

(***************************************************************************)
(* System.hypothetical_append_packages_to_system (classes.py 953-1009).    *)
(***************************************************************************)
NamesOf(pkgs) == {pkgs[i].name : i \in DOMAIN pkgs}

\* System(list(all_packages_dict.values())) after the del of the given names
Rebuilt(sys, names) ==
    System(SelectSeqIdx(sys.all_packages_dict,
                        {i \in DOMAIN sys.all_packages_dict :
                           sys.all_packages_dict[i].name \notin names}))

\* lines 964-968: the members an incoming package of the same name replaces
Displaced(sys, pkgs) ==
    SelectSeqIdx(sys.all_packages_dict,
                 {i \in DOMAIN sys.all_packages_dict :
                    sys.all_packages_dict[i].name \in NamesOf(pkgs)})

\* no member is found in conflict with an incoming package
ToDeleteNone(sys, pkgs) == <<>>

\* lines 971-974: the members in conflict with an incoming package, each once
\* (list(set(...)): the order is the one of the members)
ToDelete(sys, pkgs) ==
    SelectSeqIdx(sys.all_packages_dict,
                 {i \in DOMAIN sys.all_packages_dict :
                    \E k \in DOMAIN pkgs :
                       PkgIn(sys.all_packages_dict[i], conflicting_with(sys, pkgs[k]))})

\* no member is looked at after a deletion
WasRequiredByNone(sys, deleted_packages) == {}

\* lines 984-989: the members named in the required_by of a deleted package
WasRequiredBy(sys, deleted_packages) ==
    {q \in Range(sys.all_packages_dict) :
       \E i \in DOMAIN deleted_packages :
          \E j \in DOMAIN deleted_packages[i].required_by :
             deleted_packages[i].required_by[j] = q.name}

\* lines 992-995: those of them whose deps are not fulfilled any more
Unfulfilled(sys, candidates) ==
    SelectSeqIdx(sys.all_packages_dict,
                 {i \in DOMAIN sys.all_packages_dict :
                    /\ sys.all_packages_dict[i] \in candidates
                    /\ ~are_all_deps_fulfilled(sys, sys.all_packages_dict[i])})

RECURSIVE CascadeLoop(_, _, _)

\* lines 983-995, new_system being rebuilt at line 981
CascadeNext(new_system, deleted_packages) ==
    CascadeLoop(new_system,
                Unfulfilled(new_system, WasRequiredBy(new_system, deleted_packages)),
                <<>>)

\* lines 977-995
CascadeLoop(new_system, to_delete_packages, deleted_packages) ==
    IF new_system.raised \/ (to_delete_packages = <<>> /\ deleted_packages = <<>>)
    THEN new_system
    ELSE CascadeNext(Rebuilt(new_system, NamesOf(to_delete_packages)),
                     deleted_packages \o to_delete_packages)

\* lines 998-1002: the incoming packages still members whose deps fail
IncomingUnfulfilled(sys, pkgs) ==
    SelectSeqIdx(pkgs, {i \in DOMAIN pkgs :
                          /\ HasName(sys, pkgs[i].name)
                          /\ ~are_all_deps_fulfilled(sys, pkgs[i])})

RECURSIVE RecheckLoop(_, _)

\* lines 997-1009
RecheckLoop(new_system, pkgs) ==
    IF new_system.raised \/ IncomingUnfulfilled(new_system, pkgs) = <<>>
    THEN new_system
    ELSE RecheckLoop(Rebuilt(new_system, NamesOf(IncomingUnfulfilled(new_system, pkgs))), pkgs)

\* lines 971-1009, new_system being the system of line 969
AppendAndCascade(new_system, deleted_packages, pkgs) ==
    RecheckLoop(CascadeLoop(append_packages(new_system, pkgs),
                            ToDelete(new_system, pkgs),
                            deleted_packages),
                pkgs)

hypothetical_append_packages_to_system(sys, pkgs) ==
    AppendAndCascade(Rebuilt(sys, NamesOf(pkgs)), Displaced(sys, pkgs), pkgs)

(***************************************************************************)
(* DepAlgoSolution and the problem classes (classes.py 25-115).            *)
(***************************************************************************)
\* DepAlgoSolution.__init__
DepAlgoSolution(packages_in_solution, visited_packages, visited_names) ==
    [packages_in_solution |-> packages_in_solution, visited_packages |-> visited_packages,
     visited_names |-> visited_names, is_valid |-> TRUE]

DepAlgoCycle(cycle_packages) ==
    [kind |-> "Cycle", cycle_packages |-> cycle_packages]

DepAlgoConflict(conflicting_packages, way_to_conflict) ==
    [kind |-> "Conflict", conflicting_packages |-> conflicting_packages,
     way_to_conflict |-> way_to_conflict]

DepAlgoNotProvided(dep_not_provided, package) ==
    [kind |-> "NotProvided", dep_not_provided |-> dep_not_provided, package |-> package]

\* a dep without provider has no relevant package
NotProvidedIrrelevant(problem) ==
    CASE problem.kind = "Cycle" -> Range(problem.cycle_packages)
      [] problem.kind = "Conflict" -> problem.conflicting_packages
      [] problem.kind = "NotProvided" -> {}

\* get_relevant_packages of the three problem classes, as a set
get_relevant_packages(problem) ==
    CASE problem.kind = "Cycle" -> Range(problem.cycle_packages)
      [] problem.kind = "Conflict" -> problem.conflicting_packages
      [] problem.kind = "NotProvided" -> {problem.package}

(***************************************************************************)
(* Package.solutions_for_dep_problem (classes.py 296-405).                 *)
(* A call returns sols (the list returned), problems (found_problems as    *)
(* the call leaves it), raised (InvalidInput escaped) and calls, the       *)
(* record of this call followed by the records of the calls it made.       *)
(* env holds installed_system, upstream_system, only_unfulfilled_deps and  *)
(* deps_to_deep_check.                                                     *)
(***************************************************************************)
CallRecord(self, solution, found_problems, sols, problems) ==
    [package |-> self, solution |-> solution, problems_in |-> found_problems,
     sols |-> sols, problems_out |-> problems]

\* the providers that are not named like the dep, once it is deep-checked
OthersWhenDeep(dep, dep_providers, deps_to_deep_check) ==
    LET dep_stripped_name == strip_versioning_from_name(dep)
    IN IF dep \in deps_to_deep_check
       THEN SelectSeqIdx(dep_providers,
                         {i \in DOMAIN dep_providers : dep_providers[i].name # dep_stripped_name})
       ELSE SelectSeqIdx(dep_providers,
                         {i \in DOMAIN dep_providers : dep_providers[i].name = dep_stripped_name})

\* the first provider alone
FirstProvider(dep, dep_providers, deps_to_deep_check) ==
    IF dep_providers = <<>> THEN <<>> ELSE <<Head(dep_providers)>>

\* lines 368-369: only the provider named like the dep, unless deep-checked
RelevantProviders(dep, dep_providers, deps_to_deep_check) ==
    LET dep_stripped_name == strip_versioning_from_name(dep)
    IN IF (\E i \in DOMAIN dep_providers : dep_providers[i].name = dep_stripped_name)
          /\ dep \notin deps_to_deep_check
       THEN SelectSeqIdx(dep_providers,
                         {i \in DOMAIN dep_providers : dep_providers[i].name = dep_stripped_name})
       ELSE dep_providers

\* lines 357-365: a dep without provider invalidates the solutions that have
\* not visited it
MarkNotProvided(dep, current_solutions) ==
    [i \in DOMAIN current_solutions |->
       IF dep \notin current_solutions[i].visited_names
       THEN [current_solutions[i] EXCEPT !.is_valid = FALSE, !.visited_names = @ \cup {dep}]
       ELSE current_solutions[i]]

\* the conflict with the whole of visited_packages as its way
NewConflictFromStart(self, solution, conflict_system) ==
    DepAlgoConflict(Range(conflict_system) \cup {self}, Append(solution.visited_packages, self))

\* lines 330-336: the conflict recorded for self against conflict_system
NewConflict(self, solution, conflict_system) ==
    LET min_index == Min({PkgIndex(conflict_system[i], solution.visited_packages) :
                            i \in DOMAIN conflict_system})
        way_to_conflict ==
          Append(SubSeq(solution.visited_packages, min_index, Len(solution.visited_packages)), self)
    IN DepAlgoConflict(Range(conflict_system) \cup {self}, way_to_conflict)

\* the cycle left open
NewDepCycleOpen(self, solution) ==
    DepAlgoCycle(SubSeq(solution.visited_packages,
                        PkgIndex(self, solution.visited_packages),
                        Len(solution.visited_packages)))

\* lines 318-320: the cycle recorded for self
NewDepCycle(self, solution) ==
    LET index_of_self == PkgIndex(self, solution.visited_packages)
    IN DepAlgoCycle(Append(SubSeq(solution.visited_packages, index_of_self,
                                  Len(solution.visited_packages)), self))

\* problems dropped whatever the solutions
SweepAlways(current_solutions, found_problems) == {}

\* lines 395-398: problems are dropped when a valid solution is left
SweepProblems(current_solutions, found_problems) ==
    IF \E i \in DOMAIN current_solutions : current_solutions[i].is_valid
    THEN {} ELSE found_problems

\* self is left out of the solutions
AppendSelfNever(self, current_solutions) == current_solutions

\* lines 400-402
AppendSelf(self, current_solutions) ==
    [i \in DOMAIN current_solutions |->
       [current_solutions[i] EXCEPT !.packages_in_solution = Append(@, self)]]

\* every visited package closes a dep cycle
IsDepCycleAnyType(self, solution) == PkgIn(self, solution.visited_packages)

\* line 316: a visited package that is no repo package closes a dep cycle
IsDepCycle(self, solution) ==
    PkgIn(self, solution.visited_packages) /\ self.type_of # REPO_PACKAGE

\* lines 316-321: found_problems after a cycle at self
CycleProblems(self, solution, found_problems) ==
    IF solution.is_valid THEN found_problems \cup {NewDepCycle(self, solution)}
    ELSE found_problems

\* lines 329-336: found_problems after the conflict check
ConflictProblems(self, solution, found_problems, conflict_system) ==
    IF conflict_system # <<>> /\ solution.is_valid
    THEN found_problems \cup {NewConflict(self, solution, conflict_system)}
    ELSE found_problems

\* lines 342-345: the copy with self visited, invalid on a conflict
PushSelf(self, solution, is_conflict) ==
    [solution EXCEPT !.visited_packages = Append(@, self),
                     !.is_valid = IF is_conflict THEN FALSE ELSE @]

\* line 372
FinishedSolutions(dep, solutions) ==
    SelectSeqIdx(solutions, {i \in DOMAIN solutions : dep \in solutions[i].visited_names})

\* lines 373 and 378: the solutions that have not visited dep, now visiting it
NotFinishedSolutions(dep, solutions) ==
    [i \in DOMAIN SelectSeqIdx(solutions, {j \in DOMAIN solutions : dep \notin solutions[j].visited_names}) |->
       [SelectSeqIdx(solutions, {j \in DOMAIN solutions : dep \notin solutions[j].visited_names})[i]
          EXCEPT !.visited_names = @ \cup {dep}]]

\* lines 379-381: whether the packages of the solution provide dep
SolutionProvides(solution, dep) ==
    provided_by(System(solution.packages_in_solution), dep) # <<>>

\* line 379: System() raising on a solution's packages
SolutionSystemRaises(solutions) ==
    \E i \in DOMAIN solutions : System(solutions[i].packages_in_solution).raised

\* lines 388-389: the (solution, provider) pairs in the order of the two loops
Pairs(solutions, dep_providers) ==
    [k \in 1..(Len(solutions) * Len(dep_providers)) |->
       <<solutions[((k - 1) \div Len(dep_providers)) + 1],
         dep_providers[((k - 1) % Len(dep_providers)) + 1]>>]

\* the result of a call that returns without expanding
Return(self, solution, found_problems, sols, problems) ==
    [sols |-> sols, problems |-> problems, raised |-> FALSE,
     calls |-> <<CallRecord(self, solution, found_problems, sols, problems)>>]

\* the loop state after one more call
Merge(st, result) ==
    Only({[sols |-> st.sols \o r.sols, problems |-> r.problems, raised |-> r.raised,
           calls |-> st.calls \o r.calls] : r \in {result}})

RECURSIVE solutions_for_dep_problem(_, _, _, _)
RECURSIVE ExpandProviders(_, _, _)
RECURSIVE DepLoop(_, _, _, _)

\* lines 388-393: every unfinished solution is expanded by every provider, in
\* order; st is the loop state (sols, problems, raised, calls)
ExpandProviders(all_pairs, state, env) ==
    Only({IF pairs = <<>> \/ st.raised THEN st
          ELSE ExpandProviders(Tail(pairs),
                               Merge(st, solutions_for_dep_problem(Head(pairs)[2], Head(pairs)[1],
                                                                   st.problems, env)),
                               env) : pairs \in {all_pairs}, st \in {state}})

\* lines 371-393: the solutions that visited dep or provide it are kept, the
\* others are replaced by their expansions
DepStepOr(dep, solutions, visiting, problems, old_calls, dep_providers, env) ==
    Only({IF SolutionSystemRaises(not_finished_solutions)
          THEN [sols |-> solutions, problems |-> problems, raised |-> TRUE, calls |-> old_calls]
          ELSE ExpandProviders(
                 Pairs(SelectSeqIdx(not_finished_solutions,
                                    {i \in DOMAIN not_finished_solutions :
                                       ~SolutionProvides(not_finished_solutions[i], dep)}),
                       dep_providers),
                 [sols |-> FinishedSolutions(dep, solutions)
                             \o SelectSeqIdx(not_finished_solutions,
                                             {i \in DOMAIN not_finished_solutions :
                                                SolutionProvides(not_finished_solutions[i], dep)}),
                  problems |-> problems, raised |-> FALSE, calls |-> old_calls],
                 env) : not_finished_solutions \in {visiting}})

\* lines 357-369, solutions being current_solutions after lines 362-365
DepStepMarked(dep, marked, problems, old_calls, dep_providers, env) ==
    Only({DepStepOr(dep, solutions, NotFinishedSolutions(dep, solutions), problems, old_calls,
                    dep_providers, env) : solutions \in {marked}})

\* lines 357-369, all_providers being the result of line 353
DepStepProvided(self, dep, st, env, all_providers) ==
    DepStepMarked(dep,
                  IF all_providers = <<>> THEN MarkNotProvided(dep, st.sols) ELSE st.sols,
                  IF all_providers = <<>>
                  THEN st.problems \cup {DepAlgoNotProvided(dep, self)} ELSE st.problems,
                  st.calls,
                  RelevantProviders(dep, all_providers, env.deps_to_deep_check),
                  env)

\* lines 353-369
DepStepProviders(self, dep, st, env, providers) ==
    Only({DepStepProvided(self, dep, st, env, all_providers) : all_providers \in {providers}})

\* every dep is resolved against upstream, provided by the installed system or not
DepStepNeverSkips(self, dep, st, env) ==
    DepStepProviders(self, dep, st, env, provided_by(env.upstream_system, dep))

\* lines 349-393: one dependency of self
DepStep(self, dep, st, env) ==
    IF env.only_unfulfilled_deps /\ provided_by(env.installed_system, dep) # <<>> THEN st
    ELSE DepStepProviders(self, dep, st, env, provided_by(env.upstream_system, dep))

\* the loop over the deps left as soon as no solution is valid
RECURSIVE DepLoopPruning(_, _, _, _)
DepLoopPruning(self, i, state, env) ==
    Only({IF \/ i > Len(relevant_deps(self))
             \/ st.raised
             \/ \A k \in DOMAIN st.sols : ~st.sols[k].is_valid
          THEN st
          ELSE DepLoopPruning(self, i + 1, DepStep(self, relevant_deps(self)[i], st, env), env)
            : st \in {state}})

\* the for loop of line 349 from dependency i on
DepLoop(self, i, state, env) ==
    Only({IF i > Len(relevant_deps(self)) \/ st.raised THEN st
          ELSE DepLoop(self, i + 1, DepStep(self, relevant_deps(self)[i], st, env), env)
            : st \in {state}})

\* lines 395-405, st being the state the loop over the deps ends in
Finish(self, solution, found_problems, state) ==
    Only({IF st.raised
          THEN [sols |-> <<>>, problems |-> st.problems, raised |-> TRUE, calls |-> st.calls]
          ELSE [sols |-> AppendSelf(self, st.sols),
                problems |-> SweepProblems(st.sols, st.problems),
                raised |-> FALSE,
                calls |-> <<CallRecord(self, solution, found_problems,
                                       AppendSelf(self, st.sols),
                                       SweepProblems(st.sols, st.problems))>> \o st.calls]
            : st \in {state}})

\* lines 326-405, conflict_system being the result of line 328
Expand(self, solution, found_problems, env, conflicting) ==
    Only({Finish(self, solution, found_problems,
                 DepLoop(self, 1,
                         [sols |-> <<PushSelf(self, solution, conflict_system # <<>>)>>,
                          problems |-> ConflictProblems(self, solution, found_problems,
                                                        conflict_system),
                          raised |-> FALSE, calls |-> <<>>],
                         env)) : conflict_system \in {conflicting}})

solutions_for_dep_problem(self, solution, found_problems, env) ==
    IF PkgIn(self, solution.packages_in_solution)
    THEN Return(self, solution, found_problems, <<solution>>, found_problems)
    ELSE IF IsDepCycle(self, solution)
    THEN Return(self, solution, found_problems, <<>>,
                CycleProblems(self, solution, found_problems))
    ELSE IF PkgIn(self, solution.visited_packages)
    THEN Return(self, solution, found_problems, <<solution>>, found_problems)
    ELSE IF System(solution.visited_packages).raised
    THEN [sols |-> <<>>, problems |-> found_problems, raised |-> TRUE, calls |-> <<>>]
    ELSE Expand(self, solution, found_problems, env,
                conflicting_with(System(solution.visited_packages), self))

(***************************************************************************)
(* Package.solutions_for_dep_problem on objects.  heap is the sequence of  *)
(* the DepAlgoSolution objects made so far and a solution is referred to   *)
(* by its position in it: deepcopy makes a new object, every assignment    *)
(* to a field and every append or add changes the object referred to.  A   *)
(* call returns heap, sols (the references returned), problems, raised     *)
(* and log, one entry per call that returned: the reference given, the     *)
(* object behind it before and after the call, the number of objects       *)
(* allocated before the call, and the references and objects returned.     *)
(***************************************************************************)
\* the object itself where a copy is due
SameObject(heap, ref) == [heap |-> heap, ref |-> ref]

\* deepcopy(solution), lines 312, 324 and 342
deepcopy(heap, ref) == [heap |-> Append(heap, heap[ref]), ref |-> Len(heap) + 1]

LogEntry(ref, before, after, sols) ==
    [given |-> ref, before |-> before[ref], after |-> after[ref],
     allocated |-> Len(before), sols |-> sols,
     values |-> [i \in DOMAIN sols |-> after[sols[i]]]]

\* lines 362-365
MarkNotProvidedAt(dep, heap, refs) ==
    [r \in DOMAIN heap |->
       IF r \in Range(refs) /\ dep \notin heap[r].visited_names
       THEN [heap[r] EXCEPT !.is_valid = FALSE, !.visited_names = @ \cup {dep}]
       ELSE heap[r]]

\* line 377
VisitAt(dep, heap, refs) ==
    [r \in DOMAIN heap |->
       IF r \in Range(refs) THEN [heap[r] EXCEPT !.visited_names = @ \cup {dep}] ELSE heap[r]]

\* lines 400-402: one append per element of the list
RECURSIVE AppendSelfAt(_, _, _)
AppendSelfAt(self, objects, references) ==
    Only({IF refs = <<>> THEN heap
          ELSE AppendSelfAt(self,
                            [heap EXCEPT ![Head(refs)].packages_in_solution = Append(@, self)],
                            Tail(refs)) : heap \in {objects}, refs \in {references}})

\* lines 312 and 324
ReturnCopy(ref, state, copy) ==
    Only({[heap |-> c.heap, sols |-> <<c.ref>>, problems |-> state.problems, raised |-> FALSE,
           log |-> Append(state.log, LogEntry(ref, state.heap, c.heap, <<c.ref>>))]
            : c \in {copy}})

\* the loop state after one more call
MergeAt(st, result) ==
    Only({[heap |-> r.heap, sols |-> st.sols \o r.sols, problems |-> r.problems,
           raised |-> r.raised, log |-> r.log] : r \in {result}})

RECURSIVE solutions_for_dep_problem_at(_, _, _, _)
RECURSIVE ExpandProvidersAt(_, _, _)
RECURSIVE DepLoopAt(_, _, _, _)

\* lines 388-393, the pairs being (reference, provider)
ExpandProvidersAt(all_pairs, state, env) ==
    Only({IF pairs = <<>> \/ st.raised THEN st
          ELSE ExpandProvidersAt(Tail(pairs),
                                 MergeAt(st, solutions_for_dep_problem_at(
                                               Head(pairs)[2], Head(pairs)[1],
                                               [heap |-> st.heap, problems |-> st.problems,
                                                log |-> st.log], env)),
                                 env) : pairs \in {all_pairs}, st \in {state}})

\* lines 375-393, visited being the heap after line 377
DepStepOrAt(dep, st, not_finished, visited, problems, dep_providers, env) ==
    Only({IF \E i \in DOMAIN not_finished : System(heap[not_finished[i]].packages_in_solution).raised
          THEN [st EXCEPT !.raised = TRUE]
          ELSE ExpandProvidersAt(
                 Pairs(SelectSeqIdx(not_finished,
                                    {i \in DOMAIN not_finished :
                                       ~SolutionProvides(heap[not_finished[i]], dep)}),
                       dep_providers),
                 [heap |-> heap,
                  sols |-> SelectSeqIdx(st.sols, {i \in DOMAIN st.sols :
                                                    dep \in st.heap[st.sols[i]].visited_names})
                             \o SelectSeqIdx(not_finished,
                                             {i \in DOMAIN not_finished :
                                                SolutionProvides(heap[not_finished[i]], dep)}),
                  problems |-> problems, raised |-> FALSE, log |-> st.log],
                 env) : heap \in {visited}})

\* lines 371-393, st.heap being the heap after lines 362-365
DepStepMarkedAt(dep, st, unfinished, problems, dep_providers, env) ==
    Only({DepStepOrAt(dep, st, not_finished, VisitAt(dep, st.heap, not_finished), problems,
                      dep_providers, env) : not_finished \in {unfinished}})

\* lines 353-393, all_providers being the result of line 353
DepStepProvidersAt(self, dep, state, env, providers) ==
    Only({DepStepMarkedAt(dep, st,
                          SelectSeqIdx(st.sols, {i \in DOMAIN st.sols :
                                                   dep \notin st.heap[st.sols[i]].visited_names}),
                          IF all_providers = <<>>
                          THEN state.problems \cup {DepAlgoNotProvided(dep, self)}
                          ELSE state.problems,
                          RelevantProviders(dep, all_providers, env.deps_to_deep_check),
                          env)
            : all_providers \in {providers},
              st \in {IF providers = <<>>
                      THEN [state EXCEPT !.heap = MarkNotProvidedAt(dep, state.heap, state.sols)]
                      ELSE state}})

\* lines 349-393: one dependency of self
DepStepAt(self, dep, st, env) ==
    IF env.only_unfulfilled_deps /\ provided_by(env.installed_system, dep) # <<>> THEN st
    ELSE DepStepProvidersAt(self, dep, st, env, provided_by(env.upstream_system, dep))

\* the for loop of line 349 from dependency i on
DepLoopAt(self, i, state, env) ==
    Only({IF i > Len(relevant_deps(self)) \/ st.raised THEN st
          ELSE DepLoopAt(self, i + 1, DepStepAt(self, relevant_deps(self)[i], st, env), env)
            : st \in {state}})

\* lines 395-405, before being the heap the call started with
FinishAt(self, ref, before, state) ==
    Only({IF st.raised THEN st
          ELSE Only({[heap |-> heap, sols |-> st.sols,
                      problems |-> IF \E i \in DOMAIN st.sols : st.heap[st.sols[i]].is_valid
                                   THEN {} ELSE st.problems,
                      raised |-> FALSE,
                      log |-> Append(st.log, LogEntry(ref, before, heap, st.sols))]
                       : heap \in {AppendSelfAt(self, st.heap, st.sols)}})
            : st \in {state}})

\* lines 326-405, copy being the result of line 342
ExpandAt(self, ref, state, env, conflicting, copy) ==
    Only({FinishAt(self, ref, state.heap,
                   DepLoopAt(self, 1,
                             [heap |-> [c.heap EXCEPT ![c.ref] =
                                          PushSelf(self, @, conflict_system # <<>>)],
                              sols |-> <<c.ref>>,
                              problems |-> ConflictProblems(self, state.heap[ref], state.problems,
                                                            conflict_system),
                              raised |-> FALSE, log |-> state.log],
                             env)) : conflict_system \in {conflicting}, c \in {copy}})

solutions_for_dep_problem_at(self, ref, state, env) ==
    Only({IF PkgIn(self, solution.packages_in_solution)
          THEN ReturnCopy(ref, state, deepcopy(state.heap, ref))
          ELSE IF IsDepCycle(self, solution)
          THEN [heap |-> state.heap, sols |-> <<>>,
                problems |-> CycleProblems(self, solution, state.problems), raised |-> FALSE,
                log |-> Append(state.log, LogEntry(ref, state.heap, state.heap, <<>>))]
          ELSE IF PkgIn(self, solution.visited_packages)
          THEN ReturnCopy(ref, state, deepcopy(state.heap, ref))
          ELSE IF System(solution.visited_packages).raised
          THEN [heap |-> state.heap, sols |-> <<>>, problems |-> state.problems,
                raised |-> TRUE, log |-> state.log]
          ELSE ExpandAt(self, ref, state, env,
                        conflicting_with(System(solution.visited_packages), self),
                        deepcopy(state.heap, ref)) : solution \in {state.heap[ref]}})

(***************************************************************************)
(* Package.dep_solving (classes.py 408-459), one step per iteration of its *)
(* loops, after the caller has built the two systems.                      *)
(***************************************************************************)
VARIABLES
    upstream_packages,      \* the packages the upstream system is built from
    installed_packages,     \* the packages the installed system is built from
    packages,               \* the requested packages
    only_unfulfilled_deps,
    upstream_system,
    installed_system,
    current_solutions,
    found_problems,
    deps_to_deep_check,
    next_package,           \* position of the for loop of line 427
    restarts,               \* completed iterations of the while loop of line 425
    calls,                  \* the calls of solutions_for_dep_problem of the last step
    printed,                \* the problems printed by lines 455-457
    returned,               \* the list dep_solving returns
    pc,
    system,                 \* a System object its methods are called on
    last_call               \* the last method call on system: arguments and result

vars == <<upstream_packages, installed_packages, packages, only_unfulfilled_deps,
          upstream_system, installed_system, current_solutions, found_problems,
          deps_to_deep_check, next_package, restarts, calls, printed, returned, pc,
          system, last_call>>

sysvars == <<system, last_call>>

inputs == <<upstream_packages, installed_packages, packages, only_unfulfilled_deps>>

Env == [installed_system |-> installed_system, upstream_system |-> upstream_system,
        only_unfulfilled_deps |-> only_unfulfilled_deps,
        deps_to_deep_check |-> deps_to_deep_check]

\* line 436
ValidSolutions(solutions) ==
    SelectSeqIdx(solutions, {i \in DOMAIN solutions : solutions[i].is_valid})

\* lines 443-445
Widened(deep, problems) ==
    deep \cup UNION {{package.name : package \in get_relevant_packages(problem)} :
                       problem \in problems}

\* the problems printed whatever the solutions
ReportedAlways(problems, solutions) == problems

\* lines 455-457: what is printed for the user
ReportedProblems(problems, solutions) ==
    IF problems # {} /\ solutions = <<>> THEN problems ELSE {}

\* line 459
Plans(solutions) == [i \in DOMAIN solutions |-> solutions[i].packages_in_solution]

\* the caller builds both systems (System.__init__, lines 771-783)
BuildSystems ==
    /\ pc = "build"
    /\ ~System(upstream_packages).raised
    /\ ~System(installed_packages).raised
    /\ upstream_system' = System(upstream_packages)
    /\ installed_system' = System(installed_packages)
    /\ pc' = "solve"
    /\ UNCHANGED <<sysvars, inputs, current_solutions, found_problems, deps_to_deep_check,
                   next_package, restarts, calls, printed, returned>>

\* lines 792-794: a duplicate name ends the run with InvalidInput
BuildRaises ==
    /\ pc = "build"
    /\ System(upstream_packages).raised \/ System(installed_packages).raised
    /\ pc' = "raised"
    /\ UNCHANGED <<sysvars, inputs, upstream_system, installed_system, current_solutions,
                   found_problems, deps_to_deep_check, next_package, restarts, calls,
                   printed, returned>>

\* the state after the calls of lines 430-432 ended in r
ExpandRequestedTo(result) ==
    \E r \in {result} :
       /\ current_solutions' = r.sols
       /\ found_problems' = r.problems
       /\ calls' = r.calls
       /\ pc' = IF r.raised THEN "raised" ELSE "solve"

\* lines 427-433: the next requested package expands every current solution
ExpandRequested ==
    /\ pc = "solve"
    /\ next_package <= Len(packages)
    /\ ExpandRequestedTo(ExpandProviders(Pairs(current_solutions, <<packages[next_package]>>),
                                         [sols |-> <<>>, problems |-> found_problems,
                                          raised |-> FALSE, calls |-> <<>>],
                                         Env))
    /\ next_package' = next_package + 1
    /\ UNCHANGED <<sysvars, inputs, upstream_system, installed_system, deps_to_deep_check,
                   restarts, printed, returned>>

\* lines 436-440 and 455-459: a valid solution is left
FoundSolutions ==
    /\ pc = "solve"
    /\ next_package > Len(packages)
    /\ ValidSolutions(current_solutions) # <<>>
    /\ current_solutions' = ValidSolutions(current_solutions)
    /\ printed' = ReportedProblems(found_problems, current_solutions')
    /\ returned' = Plans(current_solutions')
    /\ pc' = "returned"
    /\ UNCHANGED <<sysvars, inputs, upstream_system, installed_system, found_problems,
                   deps_to_deep_check, next_package, restarts, calls>>

\* lines 436-449 and 455-459: no valid solution and nothing new to deep check
GiveUp ==
    /\ pc = "solve"
    /\ next_package > Len(packages)
    /\ ValidSolutions(current_solutions) = <<>>
    /\ Cardinality(Widened(deps_to_deep_check, found_problems)) = Cardinality(deps_to_deep_check)
    /\ current_solutions' = <<>>
    /\ deps_to_deep_check' = Widened(deps_to_deep_check, found_problems)
    /\ printed' = ReportedProblems(found_problems, current_solutions')
    /\ returned' = Plans(current_solutions')
    /\ pc' = "returned"
    /\ UNCHANGED <<sysvars, inputs, upstream_system, installed_system, found_problems,
                   next_package, restarts, calls>>

\* a restart that loses the names found
WidenForgetting ==
    /\ pc = "solve"
    /\ next_package > Len(packages)
    /\ ValidSolutions(current_solutions) = <<>>
    /\ Cardinality(Widened(deps_to_deep_check, found_problems)) # Cardinality(deps_to_deep_check)
    /\ found_problems' = {}
    /\ current_solutions' = <<DepAlgoSolution(<<>>, <<>>, {})>>
    /\ next_package' = 1
    /\ restarts' = restarts + 1
    /\ UNCHANGED <<sysvars, inputs, upstream_system, installed_system, deps_to_deep_check, calls,
                   printed, returned, pc>>

\* lines 436-452: no valid solution, the search starts again with more deps to
\* deep check
Widen ==
    /\ pc = "solve"
    /\ next_package > Len(packages)
    /\ ValidSolutions(current_solutions) = <<>>
    /\ Cardinality(Widened(deps_to_deep_check, found_problems)) # Cardinality(deps_to_deep_check)
    /\ deps_to_deep_check' = Widened(deps_to_deep_check, found_problems)
    /\ found_problems' = {}
    /\ current_solutions' = <<DepAlgoSolution(<<>>, <<>>, {})>>
    /\ next_package' = 1
    /\ restarts' = restarts + 1
    /\ UNCHANGED <<sysvars, inputs, upstream_system, installed_system, calls, printed, returned, pc>>

Next == BuildSystems \/ BuildRaises \/ ExpandRequested \/ FoundSolutions \/ GiveUp \/ Widen

(***************************************************************************)
(* The inputs: package lists as the metadata loaders deliver them.         *)
(***************************************************************************)
nA == <<"A">>
nB == <<"B">>
nC == <<"C">>
nD == <<"D">>
nE == <<"E">>
nX == <<"X">>
nY == <<"Y">>
nZ == <<"Z">>
nM == <<"M">>
v1 == <<"1">>
v2 == <<"2">>
B_ge_2 == <<"B", ">", "=", "2">>
B_eq_2 == <<"B", "=", "2">>

Aur(name, version, depends, provides, conflicts) ==
    Package(name, version, AUR_PACKAGE, depends, provides, conflicts)

Repo(name, version, depends, provides, conflicts) ==
    Package(name, version, REPO_PACKAGE, depends, provides, conflicts)

\* an installed package as expac -Q reports it, with its required_by
Installed(name, version, depends, provides, conflicts, required_by) ==
    [Package(name, version, REPO_PACKAGE, depends, provides, conflicts)
       EXCEPT !.required_by = required_by]

\* the upstream packages a universe is drawn from: per name, the variants
Variants ==
    << << Aur(nA, v1, <<nB>>, <<>>, <<>>),
          Aur(nA, v1, <<nX>>, <<>>, <<>>),
          Repo(nA, v1, <<nB>>, <<>>, <<>>),
          Aur(nA, v1, <<B_ge_2>>, <<>>, <<>>) >>,
       << Aur(nB, v1, <<>>, <<>>, <<>>),
          Aur(nB, v1, <<nC>>, <<>>, <<>>),
          Aur(nB, v1, <<nA>>, <<>>, <<>>),
          Repo(nB, v1, <<nA>>, <<>>, <<>>),
          Aur(nB, v1, <<>>, <<>>, <<nC>>),
          Aur(nB, v2, <<>>, <<>>, <<>>),
          Aur(nB, v1, <<nM>>, <<>>, <<>>) >>,
       << Aur(nC, v1, <<>>, <<>>, <<>>),
          Aur(nC, v1, <<nB>>, <<>>, <<>>),
          Aur(nC, v1, <<>>, <<nX>>, <<>>),
          Aur(nC, v1, <<nM>>, <<nX>>, <<>>),
          Aur(nC, v1, <<>>, <<B_eq_2>>, <<>>) >>,
       << Aur(nD, v1, <<>>, <<nX>>, <<>>),
          Aur(nD, v1, <<>>, <<nX>>, <<nA>>),
          Aur(nD, v1, <<nB, nC>>, <<>>, <<>>) >> >>

MaxPkgs == 3
MaxRequested == 2

\* one variant, or none (0), for every name; at most MaxPkgs packages
Selections ==
    {sel \in [DOMAIN Variants -> 0..7] :
       /\ \A i \in DOMAIN Variants : sel[i] <= Len(Variants[i])
       /\ Cardinality({i \in DOMAIN Variants : sel[i] > 0}) \in 1..MaxPkgs}

Selected(sel) ==
    LET F[i \in 0..Len(Variants)] ==
          IF i = 0 THEN <<>>
          ELSE IF sel[i] > 0 THEN Append(F[i - 1], Variants[i][sel[i]]) ELSE F[i - 1]
    IN F[Len(Variants)]

\* package lists outside the family: the same name in two versions, a second
\* provider that only a deep check reaches, a provider choice followed by
\* a second requested package, a second provider of a versioned dep, and a
\* second provider beside the package named like the dep
ExtraUniverses ==
    { << Aur(nA, v1, <<B_ge_2>>, <<>>, <<>>), Aur(nB, v1, <<>>, <<>>, <<>>),
         Aur(nB, v2, <<>>, <<>>, <<>>) >>,
      << Aur(nA, v1, <<nB>>, <<>>, <<>>), Aur(nB, v1, <<nM>>, <<>>, <<>>),
         Aur(nC, v1, <<nE>>, <<nB>>, <<>>) >>,
      << Aur(nA, v1, <<nX>>, <<>>, <<>>), Aur(nB, v1, <<nE>>, <<>>, <<>>),
         Aur(nC, v1, <<>>, <<nX, nE>>, <<>>), Aur(nD, v1, <<>>, <<nX>>, <<nA>>),
         Aur(nE, v1, <<nM>>, <<>>, <<>>) >>,
      << Aur(nA, v1, <<B_ge_2>>, <<>>, <<>>), Aur(nB, v2, <<nM>>, <<>>, <<>>),
         Aur(nC, v1, <<>>, <<B_eq_2>>, <<>>) >>,
      << Aur(nA, v1, <<nB>>, <<>>, <<>>), Aur(nB, v1, <<>>, <<>>, <<>>),
         Aur(nC, v1, <<>>, <<nB>>, <<>>) >> }

Universes == {Selected(sel) : sel \in Selections} \cup ExtraUniverses

\* installed systems as pacman keeps them: no two packages in conflict, every
\* dependency provided, required_by accurate
InstalledSystems ==
    { <<>>,
      << Installed(nB, v1, <<>>, <<>>, <<>>, <<>>),
         Installed(nC, v1, <<>>, <<>>, <<>>, <<nY>>),
         Installed(nY, v1, <<nC>>, <<>>, <<>>, <<>>),
         Installed(nZ, v1, <<>>, <<nX>>, <<nD>>, <<>>) >> }

\* the requested packages are upstream packages, without repetition
Requests(universe) ==
    {req \in UNION {[1..n -> DOMAIN universe] : n \in 1..MaxRequested} :
       \A i, j \in DOMAIN req : i # j => req[i] # req[j]}

Init ==
    /\ upstream_packages \in Universes
    /\ installed_packages \in InstalledSystems
    /\ \E req \in Requests(upstream_packages) :
          packages = [i \in DOMAIN req |-> upstream_packages[req[i]]]
    \* with nothing installed line 350 never skips a dep, whatever the flag
    /\ only_unfulfilled_deps \in (IF installed_packages = <<>> THEN {TRUE} ELSE BOOLEAN)
    /\ upstream_system = EmptySystem
    /\ installed_system = EmptySystem
    /\ current_solutions = <<DepAlgoSolution(<<>>, <<>>, {})>>
    /\ found_problems = {}
    /\ deps_to_deep_check = {}
    /\ next_package = 1
    /\ restarts = 0
    /\ calls = <<>>
    /\ printed = {}
    /\ returned = <<>>
    /\ pc = "build"
    /\ system = EmptySystem
    /\ last_call = <<>>

Spec == Init /\ [][Next]_vars

MaxLivePkgs == 2

\* the runs on the package lists outside the family and on the short ones
LiveInit ==
    /\ Init
    /\ upstream_packages \in ExtraUniverses \/ Len(upstream_packages) <= MaxLivePkgs

\* dep_solving is one sequential call: it keeps running until it returns or
\* raises
LiveSpec == LiveInit /\ [][Next]_vars /\ WF_vars(Next)

(***************************************************************************)
(* dep_solving with the solutions as objects: line 427-433 hand the        *)
(* objects of current_solutions to solutions_for_dep_problem one by one.   *)
(* last_call keeps the heap, the references returned and the log of the    *)
(* step, and next to them the list the step returns when solutions are     *)
(* values.                                                                 *)
(***************************************************************************)
References(objects) == [i \in DOMAIN objects |-> i]

\* the state after the calls of lines 430-432 ended in result, by_value being
\* the same calls on values
ExpandRequestedAtTo(result, by_value) ==
    \E r \in {result}, v \in {by_value} :
       /\ current_solutions' = [i \in DOMAIN r.sols |-> r.heap[r.sols[i]]]
       /\ found_problems' = r.problems
       /\ calls' = v.calls
       /\ last_call' = [method |-> "solutions_for_dep_problem", heap |-> r.heap,
                        sols |-> r.sols, log |-> r.log, raised |-> r.raised,
                        by_value |-> v]
       /\ pc' = IF r.raised THEN "raised" ELSE "solve"

\* lines 427-433
ExpandRequestedAt ==
    /\ pc = "solve"
    /\ next_package <= Len(packages)
    /\ ExpandRequestedAtTo(
          ExpandProvidersAt(Pairs(References(current_solutions), <<packages[next_package]>>),
                            [heap |-> current_solutions, sols |-> <<>>,
                             problems |-> found_problems, raised |-> FALSE, log |-> <<>>],
                            Env),
          ExpandProviders(Pairs(current_solutions, <<packages[next_package]>>),
                          [sols |-> <<>>, problems |-> found_problems,
                           raised |-> FALSE, calls |-> <<>>],
                          Env))
    /\ next_package' = next_package + 1
    /\ UNCHANGED <<system, inputs, upstream_system, installed_system, deps_to_deep_check,
                   restarts, printed, returned>>

HeapNext ==
    BuildSystems \/ BuildRaises \/ ExpandRequestedAt \/ FoundSolutions \/ GiveUp \/ Widen

HeapSpec == LiveInit /\ [][HeapNext]_vars

(***************************************************************************)
(* System.differences_between_systems and validate_and_choose_solution     *)
(* (classes.py 1011-1156).  Sets of packages are sets of what              *)
(* Package.__hash__ and __eq__ look at: name and version.                  *)
(***************************************************************************)
PkgKey(p) == <<p.name, p.version>>

\* set(all_packages_dict.values())
KeysOf(sys) == {PkgKey(sys.all_packages_dict[i]) : i \in DOMAIN sys.all_packages_dict}

\* lines 1041-1054: per other system, what it has more and what it has less
DifferenceTuples(self, other_systems) ==
    [i \in DOMAIN other_systems |->
       [installed |-> KeysOf(other_systems[i]) \ KeysOf(self),
        uninstalled |-> KeysOf(self) \ KeysOf(other_systems[i])]]

\* the first of the sets
FirstOfSets(sets) == sets[1]

\* lines 1056-1057: set.intersection over a list of sets that is not empty
Intersection(sets) == {x \in sets[1] : \A i \in DOMAIN sets : x \in sets[i]}

\* lines 1041-1073
differences_between_systems(self, other_systems) ==
    LET differences_tuples == DifferenceTuples(self, other_systems)
        first_return_tuple ==
          [installed |-> Intersection([i \in DOMAIN other_systems |-> differences_tuples[i].installed]),
           uninstalled |-> Intersection([i \in DOMAIN other_systems |-> differences_tuples[i].uninstalled])]
    IN [common |-> first_return_tuple,
        single |-> [i \in DOMAIN other_systems |->
                      [installed |-> differences_tuples[i].installed \ first_return_tuple.installed,
                       uninstalled |-> differences_tuples[i].uninstalled \ first_return_tuple.uninstalled]]]

\* line 1091
NewSystems(self, solutions) ==
    [i \in DOMAIN solutions |-> hypothetical_append_packages_to_system(self, solutions[i])]

\* every solution counts as valid
AllSolutionsIndices(new_systems, needed_packages) == [i \in DOMAIN new_systems |-> i]

\* lines 1092-1100: the solutions whose new system holds every needed name
ValidSolutionsIndices(new_systems, needed_packages) ==
    SelectSeqIdx([i \in DOMAIN new_systems |-> i],
                 {i \in DOMAIN new_systems :
                    \A k \in DOMAIN needed_packages :
                       HasName(new_systems[i], needed_packages[k].name)})

\* lines 1115-1116
SingleDifferencesCount(single) ==
    LET F[i \in 0..Len(single)] ==
          IF i = 0 THEN 0
          ELSE F[i - 1] + Cardinality(single[i].installed) + Cardinality(single[i].uninstalled)
    IN F[Len(single)]

\* no duplicate is removed
KeepDuplicates(valid_solutions_indices, single) == valid_solutions_indices

\* lines 1121-1131: of the valid solutions with one and the same difference
\* set the first is kept
WithoutDuplicates(valid_solutions_indices, single) ==
    LET ContSet(i) == single[i].installed \cup single[i].uninstalled
    IN SelectSeqIdx(valid_solutions_indices,
                    {i \in DOMAIN valid_solutions_indices :
                       \A j \in 1..(i - 1) : ContSet(j) # ContSet(i)})

\* lines 1091-1132: InvalidInput (raised), or the indices of the solutions a
\* return can give, and whether the user is asked to pick among them
validate_and_choose_solution(self, solutions, needed_packages) ==
    LET new_systems == NewSystems(self, solutions)
        valid_solutions_indices == ValidSolutionsIndices(new_systems, needed_packages)
        valid_systems == [i \in DOMAIN valid_solutions_indices |->
                            new_systems[valid_solutions_indices[i]]]
        systems_differences == differences_between_systems(self, valid_systems)
    IN IF (\E i \in DOMAIN new_systems : new_systems[i].raised) \/ valid_solutions_indices = <<>>
       THEN [raised |-> TRUE, choices |-> <<>>, asks |-> FALSE]
       ELSE IF Len(valid_systems) = 1 \/ SingleDifferencesCount(systems_differences.single) = 0
       THEN [raised |-> FALSE, choices |-> <<valid_solutions_indices[1]>>, asks |-> FALSE]
       ELSE [raised |-> FALSE,
             choices |-> WithoutDuplicates(valid_solutions_indices, systems_differences.single),
             asks |-> TRUE]

(***************************************************************************)
(* A System object and the calls of its methods: construction, then        *)
(* append_packages, provided_by, conflicting_with and                      *)
(* hypothetical_append_packages_to_system.  InvalidInput is fatal: nothing  *)
(* is called on a system that raised.  provided_by, conflicting_with,      *)
(* differences_between_systems and validate_and_choose_solution            *)
(* leave the system as it is, so the calls that can follow them are the    *)
(* calls that can be made without them: the machine stops after a query.   *)
(* Every list of packages is a constructed system, so the machine makes    *)
(* one changing call per constructed system.                               *)
(***************************************************************************)
nU == <<"U">>
nV == <<"V">>
nW == <<"W">>
X_eq_2 == <<"X", "=", "2">>
X_ge_2 == <<"X", ">", "=", "2">>
X_lt_2 == <<"X", "<", "2">>

\* the packages the systems are made of: X-1 required by Y, Y-1 on X and
\* required by U, U-1 on Y, Z-1 against X, X-2 with a dep nothing provides,
\* W-1 providing X twice, V-1 providing X=2 against the versions of X below 2
SysCatalog ==
    << Installed(nX, v1, <<>>, <<>>, <<>>, <<nY>>),
       Installed(nY, v1, <<nX>>, <<>>, <<>>, <<nU>>),
       Installed(nU, v1, <<nY>>, <<>>, <<>>, <<>>),
       Aur(nZ, v1, <<>>, <<>>, <<nX>>),
       Aur(nX, v2, <<nM>>, <<>>, <<>>),
       Aur(nW, v1, <<>>, <<nX, X_eq_2>>, <<>>),
       Aur(nV, v1, <<>>, <<X_eq_2>>, <<X_lt_2>>) >>

\* the deps asked for
SysDeps == {nX, X_eq_2, X_ge_2, X_lt_2, nY, nM}

MaxSysPkgs == 3
MaxIncoming == 2
MaxPlans == 3

\* the plans handed to validate_and_choose_solution: Z-1 (X and what needs it
\* go), W-1, W-1 and Z-1 in both orders, X-2 (dropped for its dep)
PlanCatalog ==
    << <<SysCatalog[4]>>, <<SysCatalog[6]>>,
       <<SysCatalog[6], SysCatalog[4]>>, <<SysCatalog[4], SysCatalog[6]>>,
       <<SysCatalog[5]>> >>

\* up to MaxPlans different plans
SolutionLists ==
    {[i \in DOMAIN idx |-> PlanCatalog[idx[i]]] :
       idx \in {f \in UNION {[1..k -> DOMAIN PlanCatalog] : k \in 0..MaxPlans} :
                  \A i, j \in DOMAIN f : i # j => f[i] # f[j]}}

\* the packages that have to be in the new system
NeededLists ==
    {<<>>, <<SysCatalog[4]>>, <<SysCatalog[6]>>, <<SysCatalog[5]>>,
     <<SysCatalog[6], SysCatalog[4]>>}

\* the lists of up to n packages of the catalog, no package twice
PackageLists(n) ==
    {[i \in DOMAIN idx |-> SysCatalog[idx[i]]] :
       idx \in {f \in UNION {[1..k -> DOMAIN SysCatalog] : k \in 0..n} :
                  \A i, j \in DOMAIN f : i # j => f[i] # f[j]}}

driverdata == <<upstream_packages, installed_packages, packages, only_unfulfilled_deps,
                upstream_system, installed_system, current_solutions, found_problems,
                deps_to_deep_check, next_package, restarts, calls, printed, returned>>
drivervars == <<driverdata, pc>>

\* System(packages)
SysInit ==
    /\ \E l \in PackageLists(MaxSysPkgs) :
          /\ system = System(l)
          /\ last_call = [method |-> "__init__", self |-> EmptySystem, packages |-> l]
    /\ upstream_packages = <<>>
    /\ installed_packages = <<>>
    /\ packages = <<>>
    /\ only_unfulfilled_deps = TRUE
    /\ upstream_system = EmptySystem
    /\ installed_system = EmptySystem
    /\ current_solutions = <<>>
    /\ found_problems = {}
    /\ deps_to_deep_check = {}
    /\ next_package = 1
    /\ restarts = 0
    /\ calls = <<>>
    /\ printed = {}
    /\ returned = <<>>
    /\ pc = "system"

\* system.append_packages(packages)
AppendPackages ==
    /\ pc = "system"
    /\ ~system.raised
    /\ \E l \in PackageLists(MaxIncoming) :
          /\ l # <<>>
          /\ Len(system.all_packages_dict) + Len(l) <= MaxSysPkgs
          /\ system' = append_packages(system, l)
          /\ last_call' = [method |-> "append_packages", self |-> system, packages |-> l]
    /\ pc' = "changed"
    /\ UNCHANGED driverdata

\* system.provided_by(dep)
ProvidedBy ==
    /\ pc = "system"
    /\ ~system.raised
    /\ \E dep \in SysDeps :
          last_call' = [method |-> "provided_by", self |-> system, dep |-> dep,
                        result |-> provided_by(system, dep)]
    /\ pc' = "asked"
    /\ UNCHANGED <<driverdata, system>>

\* system.conflicting_with(package)
ConflictingWith ==
    /\ pc = "system"
    /\ ~system.raised
    /\ \E i \in DOMAIN SysCatalog :
          last_call' = [method |-> "conflicting_with", self |-> system,
                        package |-> SysCatalog[i],
                        result |-> conflicting_with(system, SysCatalog[i])]
    /\ pc' = "asked"
    /\ UNCHANGED <<driverdata, system>>

\* system = system.hypothetical_append_packages_to_system(packages)
HypotheticalAppend ==
    /\ pc = "system"
    /\ ~system.raised
    /\ Len(system.all_packages_dict) <= MaxSysPkgs
    /\ \E l \in PackageLists(MaxIncoming) :
          /\ l # <<>>
          /\ system' = hypothetical_append_packages_to_system(system, l)
          /\ last_call' = [method |-> "hypothetical_append_packages_to_system",
                           self |-> system, packages |-> l]
    /\ pc' = "changed"
    /\ UNCHANGED driverdata

\* the systems compared with: none of the packages, the installed ones, one
\* of them in another version, and systems with further packages
OtherCatalog ==
    << System(<<>>),
       System(<<SysCatalog[1]>>),
       System(<<SysCatalog[1], SysCatalog[2]>>),
       System(<<SysCatalog[5], SysCatalog[2]>>),
       System(<<SysCatalog[2], SysCatalog[4]>>),
       System(<<SysCatalog[4], SysCatalog[6]>>) >>

MaxOthers == 2

\* the lists of one to MaxOthers systems
OtherSystemLists ==
    {[i \in DOMAIN idx |-> OtherCatalog[idx[i]]] :
       idx \in UNION {[1..k -> DOMAIN OtherCatalog] : k \in 1..MaxOthers}}

\* system.differences_between_systems(other_systems), system being made of
\* installed packages
DifferencesBetweenSystems ==
    /\ pc = "system"
    /\ ~system.raised
    /\ \A i \in DOMAIN system.all_packages_dict :
          \E k \in 1..3 : system.all_packages_dict[i] = SysCatalog[k]
    /\ \E other_systems \in OtherSystemLists :
          last_call' = [method |-> "differences_between_systems", self |-> system,
                        other_systems |-> other_systems,
                        result |-> differences_between_systems(system, other_systems)]
    /\ pc' = "asked"
    /\ UNCHANGED <<driverdata, system>>

\* system.validate_and_choose_solution(solutions, needed_packages), system
\* being made of installed packages, up to the return or the first prompt
ValidateAndChoose ==
    /\ pc = "system"
    /\ ~system.raised
    /\ \A i \in DOMAIN system.all_packages_dict :
          \E k \in 1..3 : system.all_packages_dict[i] = SysCatalog[k]
    /\ \E solutions \in SolutionLists, needed_packages \in NeededLists :
          \E r \in {validate_and_choose_solution(system, solutions, needed_packages)} :
             /\ last_call' = [method |-> "validate_and_choose_solution", self |-> system,
                              solutions |-> solutions, needed_packages |-> needed_packages,
                              choices |-> r.choices, user_input |-> 0,
                              result |-> IF r.raised \/ r.asks THEN <<>>
                                         ELSE solutions[r.choices[1]]]
             /\ pc' = IF r.raised THEN "raised" ELSE IF r.asks THEN "choosing" ELSE "chosen"
    /\ UNCHANGED <<driverdata, system>>

\* lines 1137-1156: the user enters a number (0: anything that is none); a
\* number of the list returns that solution, anything else asks again
UserInput ==
    /\ pc = "choosing"
    /\ \E user_input \in 0..(MaxPlans + 1) :
          /\ last_call' = [last_call EXCEPT
                             !.user_input = user_input,
                             !.result = IF user_input \in DOMAIN last_call.choices
                                        THEN last_call.solutions[last_call.choices[user_input]]
                                        ELSE <<>>]
          /\ pc' = IF user_input \in DOMAIN last_call.choices THEN "chosen" ELSE "choosing"
    /\ UNCHANGED <<driverdata, system>>

SysNext ==
    \/ AppendPackages
    \/ ProvidedBy
    \/ ConflictingWith
    \/ HypotheticalAppend
    \/ ValidateAndChoose
    \/ UserInput

SysSpec == SysInit /\ [][SysNext]_vars

\* the calls that compare systems, on the systems made of installed packages
ChoiceInit ==
    /\ SysInit
    /\ \A i \in DOMAIN system.all_packages_dict :
          \E k \in 1..3 : system.all_packages_dict[i] = SysCatalog[k]

ChoiceNext == DifferencesBetweenSystems \/ ValidateAndChoose \/ UserInput

ChoiceSpec == ChoiceInit /\ [][ChoiceNext]_vars

(***************************************************************************)
(* Properties of the plans dep_solving returns.                            *)
(***************************************************************************)
\* whether a package before position i of plan provides dep
ProvidedEarlier(plan, i, dep) ==
    \E j \in 1..(i - 1) : provided_by(System(<<plan[j]>>), dep) # <<>>

\* whether every relevant dep of plan[i] is provided by the installed system
\* (when only unfulfilled deps are solved) or by an earlier package of plan
DepsBefore(plan, i) ==
    \A d \in DOMAIN relevant_deps(plan[i]) :
       \/ /\ only_unfulfilled_deps
          /\ provided_by(installed_system, relevant_deps(plan[i])[d]) # <<>>
       \/ ProvidedEarlier(plan, i, relevant_deps(plan[i])[d])

\* C1: every plan dep_solving returns is topologically ordered: each relevant
\* dep of each package of the plan is provided by the installed system (when
\* only unfulfilled deps are solved) or by a package earlier in the plan.
C1_TopologicalOrder ==
    pc = "returned" =>
       \A k \in DOMAIN returned : \A i \in DOMAIN returned[k] : DepsBefore(returned[k], i)

\* no two members of sys are in conflict with each other
NoMutualConflict(sys) ==
    \A i, j \in DOMAIN sys.all_packages_dict :
       i # j => ~(/\ PkgIn(sys.all_packages_dict[j],
                           conflicting_with(sys, sys.all_packages_dict[i]))
                  /\ PkgIn(sys.all_packages_dict[i],
                           conflicting_with(sys, sys.all_packages_dict[j])))

\* C2: appending a returned plan hypothetically to the installed system yields
\* a system without a pair of members in conflict with each other.
C2_NoConflictAfterAppend ==
    pc = "returned" =>
       \A k \in DOMAIN returned :
          /\ ~hypothetical_append_packages_to_system(installed_system, returned[k]).raised
          /\ NoMutualConflict(hypothetical_append_packages_to_system(installed_system,
                                                                     returned[k]))

\* a plan is returned whose packages are in conflict with an installed package
C2_Witness ==
    /\ pc = "returned"
    /\ \E k \in DOMAIN returned :
          /\ ToDelete(installed_system, returned[k]) # <<>>
          /\ \E i \in DOMAIN returned[k] :
                HasName(hypothetical_append_packages_to_system(installed_system, returned[k]),
                        returned[k][i].name)

(***************************************************************************)
(* Properties of the driver loop.                                          *)
(***************************************************************************)
\* C3: dep_solving terminates, it restarts the search at most as often as
\* there are upstream packages, deps_to_deep_check never shrinks, and every
\* restart happens only after deps_to_deep_check has strictly grown.
C3_Termination ==
    /\ <>(pc \in {"returned", "raised"})
    /\ [](restarts <= Len(upstream_packages))
    /\ [][deps_to_deep_check \subseteq deps_to_deep_check']_vars
    /\ [][restarts' # restarts =>
             /\ deps_to_deep_check \subseteq deps_to_deep_check'
             /\ deps_to_deep_check' # deps_to_deep_check]_vars

\* the search has ended after it was restarted
C3_Witness == pc = "returned" /\ restarts >= 2

\* C4: when dep_solving returns at least one plan, no problem is reported,
\* also with several requested packages or branches of which some are invalid.
C4_NoProblemsWithPlans ==
    (pc = "returned" /\ returned # <<>>) => printed = {}

\* plans are returned for two requested packages while the solver's own set
\* of problems still holds the problems of a branch that was dropped
C4_Witness ==
    /\ pc = "returned"
    /\ returned # <<>>
    /\ Len(packages) >= 2
    /\ found_problems # {}
    /\ printed = {}

\* C5: whenever dep_solving returns an empty list, the last pass left no valid
\* solution, the widening added no name to deps_to_deep_check, and the
\* problems reported are not empty.
C5_EmptyReturn ==
    [][(pc = "solve" /\ pc' = "returned" /\ returned' = <<>>) =>
          /\ \A i \in DOMAIN current_solutions : ~current_solutions[i].is_valid
          /\ deps_to_deep_check' = deps_to_deep_check
          /\ printed' # {}
          /\ printed' = found_problems]_vars

\* an empty list was returned after a restart, with problems reported
C5_Witness ==
    /\ pc = "returned"
    /\ returned = <<>>
    /\ restarts >= 1
    /\ printed # {}

(***************************************************************************)
(* Properties of the calls of solutions_for_dep_problem, read from calls.  *)
(***************************************************************************)
\* the call expands a package the solution has visited but does not hold
Revisits(c) ==
    /\ PkgIn(c.package, c.solution.visited_packages)
    /\ ~PkgIn(c.package, c.solution.packages_in_solution)

\* C6: expanding a repo package that is already in visited_packages returns
\* the solution unchanged and leaves the problems as they were, and no cycle
\* of repo packages alone is ever recorded.
C6_RepoCycleExempt ==
    /\ \A n \in DOMAIN calls :
          (calls[n].package.type_of = REPO_PACKAGE
             /\ PkgIn(calls[n].package, calls[n].solution.visited_packages))
          => /\ calls[n].sols = <<calls[n].solution>>
             /\ calls[n].problems_out = calls[n].problems_in
    /\ \A problem \in found_problems \cup printed :
          problem.kind = "Cycle" =>
             \E i \in DOMAIN problem.cycle_packages :
                problem.cycle_packages[i].type_of # REPO_PACKAGE

\* a repo package is expanded again while its own deps are being solved, in a
\* solution that is still valid
C6_Witness ==
    \E n \in DOMAIN calls :
       /\ calls[n].package.type_of = REPO_PACKAGE
       /\ Revisits(calls[n])
       /\ calls[n].solution.is_valid

\* the cycle a revisit of c.package closes: visited_packages from its first
\* occurrence on, followed by the package
ClosedCycle(c) ==
    [kind |-> "Cycle",
     cycle_packages |->
        SubSeq(c.solution.visited_packages,
               Min({i \in DOMAIN c.solution.visited_packages :
                      PkgEq(c.solution.visited_packages[i], c.package)}),
               Len(c.solution.visited_packages)) \o <<c.package>>]

\* C7: expanding a package that is no repo package, visited but not in the
\* solution, returns no solution and, if the solution is valid, adds the cycle
\* from the first occurrence of the package to the end of visited_packages
\* followed by the package; for A and B depending on each other, both from
\* the AUR and nothing installed, solving A returns no plan and reports the
\* cycle A, B, A.
C7_CycleRecorded ==
    /\ \A n \in DOMAIN calls :
          (calls[n].package.type_of # REPO_PACKAGE /\ Revisits(calls[n]))
          => /\ calls[n].sols = <<>>
             /\ calls[n].solution.is_valid
                  => calls[n].problems_out = calls[n].problems_in \cup {ClosedCycle(calls[n])}
    /\ ( /\ upstream_packages = <<Aur(nA, v1, <<nB>>, <<>>, <<>>), Aur(nB, v1, <<nA>>, <<>>, <<>>)>>
         /\ installed_packages = <<>>
         /\ packages = <<Aur(nA, v1, <<nB>>, <<>>, <<>>)>>
         /\ pc = "returned" )
       => /\ returned = <<>>
          /\ [kind |-> "Cycle",
              cycle_packages |-> <<Aur(nA, v1, <<nB>>, <<>>, <<>>),
                                   Aur(nB, v1, <<nA>>, <<>>, <<>>),
                                   Aur(nA, v1, <<nB>>, <<>>, <<>>)>>] \in printed

\* a cycle is closed below its first package, in a valid solution
C7_Witness ==
    \E n \in DOMAIN calls :
       /\ calls[n].package.type_of # REPO_PACKAGE
       /\ Revisits(calls[n])
       /\ calls[n].solution.is_valid
       /\ ~PkgEq(calls[n].solution.visited_packages[1], calls[n].package)

\* the call reaches the conflict check of lines 326-339
ChecksConflicts(c) ==
    /\ ~PkgIn(c.package, c.solution.packages_in_solution)
    /\ ~PkgIn(c.package, c.solution.visited_packages)

\* the visited packages in conflict with the package of the call
ConflictSet(c) ==
    {q \in Range(c.solution.visited_packages) :
       PkgIn(q, conflicting_with(System(c.solution.visited_packages), c.package))}

\* the conflict of the claim: the set with the package, the way from the
\* first member of the set to the end of visited_packages and the package
ClaimedConflict(c) ==
    [kind |-> "Conflict",
     conflicting_packages |-> ConflictSet(c) \cup {c.package},
     way_to_conflict |->
        SubSeq(c.solution.visited_packages,
               Min({i \in DOMAIN c.solution.visited_packages :
                      c.solution.visited_packages[i] \in ConflictSet(c)}),
               Len(c.solution.visited_packages)) \o <<c.package>>]

\* C8 as stated: whenever the packages of visited_packages in conflict with
\* the expanded package are not none, the conflict is recorded and every
\* solution returned is invalid.
C8_ConflictAlwaysRecorded ==
    \A n \in DOMAIN calls :
       (ChecksConflicts(calls[n]) /\ ConflictSet(calls[n]) # {})
       => /\ ClaimedConflict(calls[n]) \in calls[n].problems_out
          /\ \A i \in DOMAIN calls[n].sols : ~calls[n].sols[i].is_valid

\* C8: whenever the packages of visited_packages in conflict with the expanded
\* package are not none, every solution returned is invalid, and the conflict
\* is recorded if the solution passed in is valid; if it is invalid already,
\* the check adds nothing to the problems.
C8_ConflictRecordedIfValid ==
    \A n \in DOMAIN calls :
       (ChecksConflicts(calls[n]) /\ ConflictSet(calls[n]) # {})
       => /\ calls[n].solution.is_valid
               => ClaimedConflict(calls[n]) \in calls[n].problems_out
          /\ (~calls[n].solution.is_valid /\ relevant_deps(calls[n].package) = <<>>)
               => calls[n].problems_out = calls[n].problems_in
          /\ \A i \in DOMAIN calls[n].sols : ~calls[n].sols[i].is_valid

\* a conflict is found in a valid solution, with a package that is not the
\* first one visited
C8_Witness ==
    \E n \in DOMAIN calls :
       /\ ChecksConflicts(calls[n])
       /\ ConflictSet(calls[n]) # {}
       /\ calls[n].solution.is_valid
       /\ calls[n].sols # <<>>
       /\ calls[n].solution.visited_packages[1] \notin ConflictSet(calls[n])

(***************************************************************************)
(* Properties of the choice of providers.                                  *)
(***************************************************************************)
\* the one requested package has one dep; its upstream providers are not
\* named like the dep and have neither deps nor conflicts, the package has no
\* conflicts, and the installed system provides nothing for the dep
OneDepManyProviders ==
    /\ Len(packages) = 1
    /\ Len(relevant_deps(packages[1])) = 1
    /\ packages[1].conflicts = <<>>
    /\ provided_by(installed_system, relevant_deps(packages[1])[1]) = <<>>
    /\ provided_by(upstream_system, relevant_deps(packages[1])[1]) # <<>>
    /\ \A i \in DOMAIN provided_by(upstream_system, relevant_deps(packages[1])[1]) :
          /\ provided_by(upstream_system, relevant_deps(packages[1])[1])[i].name
               # strip_versioning_from_name(relevant_deps(packages[1])[1])
          /\ relevant_deps(provided_by(upstream_system, relevant_deps(packages[1])[1])[i]) = <<>>
          /\ provided_by(upstream_system, relevant_deps(packages[1])[1])[i].conflicts = <<>>

A_1 == Aur(nA, v1, <<B_ge_2>>, <<>>, <<>>)
B_1 == Aur(nB, v1, <<>>, <<>>, <<>>)
B_2 == Aur(nB, v2, <<>>, <<>>, <<>>)

\* C10 as stated: with the upstream packages A-1, B-1 and B-2 and nothing
\* installed, solving A ends with a plan that holds B-2 and not B-1.
C10_PicksNewerOfBoth ==
    ( /\ upstream_packages = <<A_1, B_1, B_2>>
      /\ installed_packages = <<>>
      /\ packages = <<A_1>>
      /\ pc \in {"returned", "raised"} )
    => /\ pc = "returned"
       /\ \E k \in DOMAIN returned : PkgIn(B_2, returned[k]) /\ ~PkgIn(B_1, returned[k])

\* C10: a system never holds B-1 and B-2 together, the run on A-1, B-1, B-2
\* ends with InvalidInput before any solving; with A-1 and B-2 upstream and
\* nothing installed the one plan is B-2, A-1; with A-1 and B-1 no plan is
\* returned and B>=2 is reported as not provided for A-1.
C10_VersionedDep ==
    /\ upstream_packages = <<A_1, B_1, B_2>> => (pc \in {"build", "raised"} /\ returned = <<>>)
    /\ ( /\ upstream_packages = <<A_1, B_2>>
         /\ installed_packages = <<>>
         /\ packages = <<A_1>>
         /\ pc = "returned" )
       => returned = << <<B_2, A_1>> >>
    /\ ( /\ upstream_packages = <<A_1, B_1>>
         /\ installed_packages = <<>>
         /\ packages = <<A_1>>
         /\ pc = "returned" )
       => /\ returned = <<>>
          /\ DepAlgoNotProvided(B_ge_2, A_1) \in printed

\* the run on A-1, B-1, B-2 has ended with InvalidInput
C10_Witness ==
    /\ upstream_packages = <<A_1, B_1, B_2>>
    /\ packages = <<A_1>>
    /\ pc = "raised"


(***************************************************************************)
(* One pass of the search as a function of the deps to deep check.         *)
(***************************************************************************)
RECURSIVE SearchFrom(_, _, _)

\* lines 427-433: the requested packages from the i-th on expand the solutions
SearchFrom(i, state, env) ==
    Only({IF i > Len(packages) \/ st.raised THEN st
          ELSE SearchFrom(i + 1,
                          ExpandProviders(Pairs(st.sols, <<packages[i]>>),
                                          [sols |-> <<>>, problems |-> st.problems,
                                           raised |-> FALSE, calls |-> <<>>],
                                          env),
                          env) : st \in {state}})

\* lines 424-436 and 459: the plans of the valid solutions of one pass
SearchPlans(deep) ==
    Only({IF r.raised THEN {} ELSE Range(Plans(ValidSolutions(r.sols))) :
          r \in {SearchFrom(1, [sols |-> <<DepAlgoSolution(<<>>, <<>>, {})>>, problems |-> {},
                                raised |-> FALSE, calls |-> <<>>],
                            [Env EXCEPT !.deps_to_deep_check = deep])}})

\* the dep atoms of the upstream packages with exactly one upstream package
\* named like them
NamedDeps ==
    {d \in UNION {Range(upstream_packages[i].depends) : i \in DOMAIN upstream_packages} :
       Cardinality({i \in DOMAIN upstream_packages :
                      upstream_packages[i].name = strip_versioning_from_name(d)}) = 1}

\* C11: at the start of a pass, for every dep atom d with exactly one
\* upstream package named strip(d), the pass with strip(d) added to the deps to
\* deep check returns every plan the pass returns without it; and the plans
\* the driver holds at the end of a pass are the plans of that function.
C11_DeepCheckKeepsPlans ==
    /\ (pc = "solve" /\ next_package = 1) =>
          \E narrow \in {SearchPlans(deps_to_deep_check)} :
             \A n \in {strip_versioning_from_name(d) : d \in NamedDeps} \ deps_to_deep_check :
                narrow \subseteq SearchPlans(deps_to_deep_check \cup {n})
    /\ (pc = "solve" /\ next_package > Len(packages)) =>
          Range(Plans(ValidSolutions(current_solutions))) = SearchPlans(deps_to_deep_check)

\* a pass that returns plans returns more of them with one more name
C11_Witness ==
    /\ pc = "solve"
    /\ next_package = 1
    /\ \E d \in NamedDeps :
          /\ strip_versioning_from_name(d) \notin deps_to_deep_check
          /\ SearchPlans(deps_to_deep_check) # {}
          /\ SearchPlans(deps_to_deep_check) #
                SearchPlans(deps_to_deep_check \cup {strip_versioning_from_name(d)})


(***************************************************************************)
(* Properties of System.                                                   *)
(***************************************************************************)
\* C12: an append_packages call that raises nothing (no name of the
\* appended packages was in the system) loses no provider: for every dep
\* atom, every package provided_by returned before the call is returned after.
C12_AppendKeepsProviders ==
    [][(pc = "system" /\ last_call'.method = "append_packages" /\ ~system'.raised) =>
          \A a \in SysDeps :
             \A p \in Range(provided_by(system, a)) : PkgIn(p, provided_by(system', a))]_vars

\* an append after which a dep that had a provider has one more
C12_Witness ==
    /\ pc = "changed"
    /\ last_call.method = "append_packages"
    /\ ~system.raised
    /\ \E a \in SysDeps :
          /\ provided_by(last_call.self, a) # <<>>
          /\ Len(provided_by(system, a)) > Len(provided_by(last_call.self, a))


\* the same elements, each as many times, in any order
SameElements(s, t) ==
    \A x \in Range(s) \cup Range(t) :
       Cardinality({i \in DOMAIN s : s[i] = x}) = Cardinality({i \in DOMAIN t : t[i] = x})

\* the same three dicts, their lists compared without order
SameIndexes(s, t) ==
    /\ SameElements(s.all_packages_dict, t.all_packages_dict)
    /\ DOMAIN s.provides_dict = DOMAIN t.provides_dict
    /\ \A n \in DOMAIN s.provides_dict : SameElements(s.provides_dict[n], t.provides_dict[n])
    /\ DOMAIN s.conflicts_dict = DOMAIN t.conflicts_dict
    /\ \A n \in DOMAIN s.conflicts_dict : SameElements(s.conflicts_dict[n], t.conflicts_dict[n])

\* C13: every system that construction, append_packages or
\* hypothetical_append_packages_to_system produced without raising has the
\* three dicts a new System built from its all_packages_dict values has; so
\* the two reverse dicts list members only, and every stripped name in the
\* provides (conflicts) of a member is a key that lists the member.
C13_RebuildSameIndexes ==
    ~system.raised =>
       /\ SameIndexes(System(system.all_packages_dict), system)
       /\ \A n \in DOMAIN system.provides_dict :
             \A p \in Range(system.provides_dict[n]) : p \in Range(system.all_packages_dict)
       /\ \A n \in DOMAIN system.conflicts_dict :
             \A p \in Range(system.conflicts_dict[n]) : p \in Range(system.all_packages_dict)
       /\ \A p \in Range(system.all_packages_dict) :
             /\ \A a \in Range(p.provides) :
                   p \in Range(DictGet(system.provides_dict, strip_versioning_from_name(a)))
             /\ \A a \in Range(p.conflicts) :
                   p \in Range(DictGet(system.conflicts_dict, strip_versioning_from_name(a)))

\* a call extended a list of the provides dict and a list of the conflicts dict
C13_Witness ==
    /\ pc = "changed"
    /\ ~system.raised
    /\ \E n \in DOMAIN last_call.self.provides_dict :
          Len(DictGet(system.provides_dict, n)) > Len(last_call.self.provides_dict[n])
    /\ \E n \in DOMAIN last_call.self.conflicts_dict :
          Len(DictGet(system.conflicts_dict, n)) > Len(last_call.self.conflicts_dict[n])


\* a package of the list has a name the system holds or an earlier package of
\* the list has
NameCollides(sys, pkgs) ==
    \E i \in DOMAIN pkgs :
       \/ HasName(sys, pkgs[i].name)
       \/ \E j \in 1..(i - 1) : pkgs[j].name = pkgs[i].name

\* C14: System(packages) and append_packages(packages) raise InvalidInput
\* exactly when a package to insert has a name that is a key by then, be it
\* from the system or from an earlier package of the same call; and
\* all_packages_dict never holds two packages of one name.
C14_DuplicateNameRaises ==
    /\ \A i, j \in DOMAIN system.all_packages_dict :
          system.all_packages_dict[i].name = system.all_packages_dict[j].name => i = j
    /\ last_call.method \in {"__init__", "append_packages"} =>
          (system.raised <=> NameCollides(last_call.self, last_call.packages))

\* an append_packages call raised for two packages of the call with one name,
\* none of them known to the system, after it inserted the first
C14_Witness ==
    /\ last_call.method = "append_packages"
    /\ system.raised
    /\ \A i \in DOMAIN last_call.packages : ~HasName(last_call.self, last_call.packages[i].name)
    /\ Len(system.all_packages_dict) > Len(last_call.self.all_packages_dict)


\* the call that led here is hypothetical_append_packages_to_system and it
\* returned a system
Appended ==
    /\ last_call.method = "hypothetical_append_packages_to_system"
    /\ ~system.raised

\* the members of the original system that are not in the returned one
Removed == {q \in Range(last_call.self.all_packages_dict) : ~PkgIn(q, system.all_packages_dict)}

X_1 == SysCatalog[1]
Y_1 == SysCatalog[2]
U_1 == SysCatalog[3]
Z_1 == SysCatalog[4]

DependsOn(sys, q, d) ==
    \E j \in DOMAIN relevant_deps(q) : PkgIn(d, provided_by(sys, relevant_deps(q)[j]))

\* among the members, required_by names the dependents and only them
RequiredByAccurate(sys) ==
    \A d, q \in Range(sys.all_packages_dict) :
       (\E j \in DOMAIN d.required_by : d.required_by[j] = q.name) <=> DependsOn(sys, q, d)

\* C16: when the required_by lists of the original system are accurate,
\* every member of the returned system that had all its relevant deps
\* provided in the original system has them provided in the returned one, and
\* so has every incoming package that is kept.
C16_DepsStayFulfilled ==
    (Appended /\ RequiredByAccurate(last_call.self)) =>
       /\ \A r \in Range(system.all_packages_dict) :
             (r \in Range(last_call.self.all_packages_dict)
              /\ are_all_deps_fulfilled(last_call.self, r)) =>
                are_all_deps_fulfilled(system, r)
       /\ \A k \in DOMAIN last_call.packages :
             HasName(system, last_call.packages[k].name) =>
                are_all_deps_fulfilled(system, last_call.packages[k])


\* hypothetically appended to the system, the plan raises nothing and leaves
\* a system that holds the name of every needed package
KeepsNeeded(sys, plan, needed_packages) ==
    /\ ~hypothetical_append_packages_to_system(sys, plan).raised
    /\ \A k \in DOMAIN needed_packages :
          HasName(hypothetical_append_packages_to_system(sys, plan), needed_packages[k].name)

\* C17: what validate_and_choose_solution returns, with or without asking
\* the user, is one of the plans given whose hypothetical system holds every
\* needed name; when no plan given is such a plan, the call raises
\* InvalidInput and returns nothing.
C17_ChosenPlanKeepsNeeded ==
    last_call.method = "validate_and_choose_solution" =>
       /\ pc = "chosen" =>
             \E i \in DOMAIN last_call.solutions :
                /\ last_call.result = last_call.solutions[i]
                /\ KeepsNeeded(last_call.self, last_call.solutions[i], last_call.needed_packages)
       /\ (\A i \in DOMAIN last_call.solutions :
              ~KeepsNeeded(last_call.self, last_call.solutions[i], last_call.needed_packages)) =>
             pc = "raised"

\* the user picked the second of the plans offered, the first plan given
\* being none of them
C17_Witness ==
    /\ last_call.method = "validate_and_choose_solution"
    /\ pc = "chosen"
    /\ last_call.user_input = 2
    /\ last_call.needed_packages # <<>>
    /\ ~KeepsNeeded(last_call.self, last_call.solutions[1], last_call.needed_packages)


\* C18: provided_by(dep) returns no package twice, whatever the provides of
\* a package; the package named like the dep, if returned, comes first, and
\* the others come in the order provides_dict lists them.
C18_ProvidersOnceInOrder ==
    last_call.method = "provided_by" =>
       LET result == last_call.result
           dep_name == strip_versioning_from_name(last_call.dep)
           listed == DictGet(last_call.self.provides_dict, dep_name)
       IN /\ \A i, j \in DOMAIN result : PkgEq(result[i], result[j]) => i = j
          /\ \A i \in DOMAIN result : result[i].name = dep_name => i = 1
          /\ \A i, j \in DOMAIN result :
                (i < j /\ result[i].name # dep_name /\ ~PkgEq(result[i], result[j])) =>
                   PkgIndex(result[i], listed) < PkgIndex(result[j], listed)


\* C19: for a package p asked on a system and every member q of it other
\* than p, conflicting_with(p) returns q exactly when conflicting_with(q), on
\* a system that holds p, returns p; whichever of the two declares it.
C19_ConflictSymmetric ==
    last_call.method = "conflicting_with" =>
       \A q \in Range(last_call.self.all_packages_dict) :
          ~PkgEq(q, last_call.package) =>
             (PkgIn(q, last_call.result)
                <=> PkgIn(last_call.package, conflicting_with(System(<<last_call.package>>), q)))

\* conflicting_with(p) returned a member that declares no conflict, for a
\* versioned conflict that p declares
C19_Witness ==
    /\ last_call.method = "conflicting_with"
    /\ \E i \in DOMAIN last_call.result :
          /\ last_call.result[i].conflicts = <<>>
          /\ last_call.result[i].name # last_call.package.name
          /\ last_call.package.conflicts = <<X_lt_2>>
          /\ PkgIn(last_call.package, conflicting_with(System(<<last_call.package>>), last_call.result[i]))


(***************************************************************************)
(* Properties of the deps to deep check.                                   *)
(***************************************************************************)
\* the logged call c is the call on a requested package with the fresh
\* solution, and its first dep, not skipped as installed, has a stripped
\* name that is to be deep-checked
FirstDepDeepChecked(c) ==
    /\ c.solution.visited_packages = <<>>
    /\ relevant_deps(c.package) # <<>>
    /\ strip_versioning_from_name(relevant_deps(c.package)[1]) \in deps_to_deep_check
    /\ ~(only_unfulfilled_deps
         /\ provided_by(installed_system, relevant_deps(c.package)[1]) # <<>>)

\* C20: in a pass after a widening, a dep atom whose stripped name is in
\* deps_to_deep_check, versioned or not, is expanded by a call on every
\* package upstream_system.provided_by returns for it.
C20_DeepCheckedNameExpandsAll ==
    next_package > 1 =>
       \A k \in DOMAIN calls :
          FirstDepDeepChecked(calls[k]) =>
             \A q \in Range(provided_by(upstream_system, relevant_deps(calls[k].package)[1])) :
                \E j \in DOMAIN calls :
                   /\ calls[j].package = q
                   /\ calls[j].solution.visited_packages = <<calls[k].package>>


\* the names of the packages on the cycles, in the conflict sets and
\* requiring the deps without provider of the problems found
ProblemPackageNames ==
    UNION {IF problem.kind = "Cycle"
           THEN {problem.cycle_packages[i].name : i \in DOMAIN problem.cycle_packages}
           ELSE IF problem.kind = "Conflict"
           THEN {q.name : q \in problem.conflicting_packages}
           ELSE {problem.package.name} : problem \in found_problems}

\* C21: the step after a pass that left no valid solution sets
\* deps_to_deep_check to its old value united with the names of the packages
\* of every problem found (cycle packages, conflicting packages, the package
\* requiring an unprovided dep); when that adds a name the search starts
\* again, from one empty solution and no problem, and when it adds none the
\* run returns.
C21_WidenByProblemPackages ==
    [][(/\ pc = "solve"
        /\ next_package > Len(packages)
        /\ \A i \in DOMAIN current_solutions : ~current_solutions[i].is_valid) =>
          /\ deps_to_deep_check' = deps_to_deep_check \cup ProblemPackageNames
          /\ IF deps_to_deep_check' # deps_to_deep_check
             THEN /\ pc' = "solve"
                  /\ restarts' = restarts + 1
                  /\ next_package' = 1
                  /\ current_solutions' = <<DepAlgoSolution(<<>>, <<>>, {})>>
                  /\ found_problems' = {}
             ELSE pc' = "returned"]_vars

\* a pass starts again after a NotProvided problem: the name of the requiring
\* package is to be deep-checked, the name of the dep is not
C21_Witness ==
    /\ pc = "solve"
    /\ restarts >= 1
    /\ next_package = 1
    /\ found_problems = {}
    /\ current_solutions = <<DepAlgoSolution(<<>>, <<>>, {})>>
    /\ \E k \in DOMAIN calls :
          \E problem \in calls[k].problems_out :
             /\ problem.kind = "NotProvided"
             /\ problem.package.name \in deps_to_deep_check
             /\ strip_versioning_from_name(problem.dep_not_provided) \notin deps_to_deep_check

\* the call runs the loop over the deps and every relevant dep of its package
\* is provided by the installed system
InstalledProvidesDeps(c) ==
    /\ ChecksConflicts(c)
    /\ relevant_deps(c.package) # <<>>
    /\ \A i \in DOMAIN relevant_deps(c.package) :
          provided_by(installed_system, relevant_deps(c.package)[i]) # <<>>

\* the calls made while the deps of the package of c were expanded
ChildCalls(c) ==
    {k \in DOMAIN calls :
       calls[k].solution.visited_packages = Append(c.solution.visited_packages, c.package)}

\* the first relevant dep of the package of c
FirstDep(c) == relevant_deps(c.package)[1]

\* C22: with only_unfulfilled_deps set, a dep the installed system provides is
\* skipped: a package with nothing but such deps is expanded without a call for
\* a provider, to the one solution passed in with the package appended,
\* invalid only if it was or if the package conflicts, with no dep marked as
\* visited and no NotProvided problem added, whether upstream provides the dep
\* or not.  With only_unfulfilled_deps unset the dep is resolved against
\* upstream: without a provider there, the NotProvided problem is recorded
\* and every solution returned is invalid; with providers, one of them is
\* expanded unless the solution provides or has visited the dep already.
C22_InstalledDepSkipped ==
    \A n \in DOMAIN calls :
       InstalledProvidesDeps(calls[n]) =>
          IF only_unfulfilled_deps
          THEN /\ ChildCalls(calls[n]) = {}
               /\ calls[n].sols =
                     <<[calls[n].solution EXCEPT
                          !.visited_packages = Append(@, calls[n].package),
                          !.packages_in_solution = Append(@, calls[n].package),
                          !.is_valid = @ /\ ConflictSet(calls[n]) = {}]>>
               /\ \A problem \in calls[n].problems_out \ calls[n].problems_in :
                     problem.kind = "Conflict"
          ELSE (FirstDep(calls[n]) \notin calls[n].solution.visited_names) =>
                  IF provided_by(upstream_system, FirstDep(calls[n])) = <<>>
                  THEN /\ DepAlgoNotProvided(FirstDep(calls[n]), calls[n].package)
                            \in calls[n].problems_out
                       /\ \A i \in DOMAIN calls[n].sols : ~calls[n].sols[i].is_valid
                  ELSE \/ SolutionProvides(calls[n].solution, FirstDep(calls[n]))
                       \/ \E k \in ChildCalls(calls[n]) :
                             PkgIn(calls[k].package,
                                   provided_by(upstream_system, FirstDep(calls[n])))

\* a requested package is expanded with only_unfulfilled_deps set, its dep is
\* provided by the installed system and by no upstream package, and the
\* solution returned is valid
C22_Witness ==
    /\ only_unfulfilled_deps
    /\ \E n \in DOMAIN calls :
          /\ InstalledProvidesDeps(calls[n])
          /\ provided_by(upstream_system, FirstDep(calls[n])) = <<>>
          /\ Len(calls[n].sols) = 1
          /\ calls[n].sols[1].is_valid
          /\ calls[n].problems_out = {}

IsPrefix(s, t) == Len(s) <= Len(t) /\ SubSeq(t, 1, Len(s)) = s

\* the solution t carries everything of the solution s
Descends(t, s) ==
    /\ IsPrefix(s.packages_in_solution, t.packages_in_solution)
    /\ IsPrefix(s.visited_packages, t.visited_packages)
    /\ s.visited_names \subseteq t.visited_names

\* line 350: the dep is not looked at
SkippedDep(dep) == only_unfulfilled_deps /\ provided_by(installed_system, dep) # <<>>

\* the call reaches the loop over the deps with an invalid solution: invalid
\* when passed in, or made invalid by the conflict check
InvalidByConflict(c) ==
    ChecksConflicts(c) /\ (~c.solution.is_valid \/ ConflictSet(c) # {})

\* the first dep of the package of the call makes the solution invalid
InvalidByFirstDep(c) ==
    /\ ChecksConflicts(c)
    /\ relevant_deps(c.package) # <<>>
    /\ ~SkippedDep(FirstDep(c))
    /\ provided_by(upstream_system, FirstDep(c)) = <<>>
    /\ FirstDep(c) \notin c.solution.visited_names

\* the positions of the deps looked at after the solution became invalid
LaterDeps(c) ==
    {j \in DOMAIN relevant_deps(c.package) : InvalidByConflict(c) \/ j > 1}

\* a call made below c that ran into a dep cycle
CycleBelow(c) ==
    \E k \in DOMAIN calls :
       /\ IsDepCycle(calls[k].package, calls[k].solution)
       /\ IsPrefix(Append(c.solution.visited_packages, c.package),
                   calls[k].solution.visited_packages)

\* C23 as stated, for the calls: an invalid branch comes back from the call,
\* with every later dep visited and a NotProvided problem for every later dep
\* without upstream provider.
C23_CallsKeepInvalid ==
    \A n \in DOMAIN calls :
       (InvalidByConflict(calls[n]) \/ InvalidByFirstDep(calls[n])) =>
          /\ calls[n].sols # <<>>
          /\ \A i \in DOMAIN calls[n].sols :
                ~calls[n].sols[i].is_valid /\ Descends(calls[n].sols[i], calls[n].solution)
          /\ \A j \in LaterDeps(calls[n]) :
                /\ \A i \in DOMAIN calls[n].sols :
                      relevant_deps(calls[n].package)[j] \in calls[n].sols[i].visited_names
                /\ provided_by(upstream_system, relevant_deps(calls[n].package)[j]) = <<>>
                     => DepAlgoNotProvided(relevant_deps(calls[n].package)[j], calls[n].package)
                           \in calls[n].problems_out

\* C23 as stated, for the driver: while requested packages are left, every
\* invalid solution of current_solutions is carried on by an invalid one.
C23_DriverKeepsInvalid ==
    (pc = "solve" /\ next_package <= Len(packages) /\ pc' = "solve") =>
       \A i \in DOMAIN current_solutions :
          ~current_solutions[i].is_valid =>
             \E k \in DOMAIN current_solutions' :
                /\ ~current_solutions'[k].is_valid
                /\ Descends(current_solutions'[k], current_solutions[i])

\* C23 as stated: a branch made invalid by a conflict or an unprovided dep is
\* not pruned during the pass, the remaining deps of the package are processed
\* on it, each later dep without upstream provider adds its NotProvided
\* problem, and only the driver drops the branch, after the last requested
\* package.
C23_InvalidNeverPruned ==
    []C23_CallsKeepInvalid /\ [][C23_DriverKeepsInvalid]_vars

\* the calls: an invalid branch comes back from the call unless a call below
\* ran into a dep cycle; every later dep that is not skipped is visited, and
\* adds its NotProvided problem when upstream has no provider
C23_CallsKeepInvalidButCycles ==
    \A n \in DOMAIN calls :
       (InvalidByConflict(calls[n]) \/ InvalidByFirstDep(calls[n])) =>
          /\ calls[n].sols # <<>> \/ CycleBelow(calls[n])
          /\ \A i \in DOMAIN calls[n].sols :
                ~calls[n].sols[i].is_valid /\ Descends(calls[n].sols[i], calls[n].solution)
          /\ \A j \in LaterDeps(calls[n]) :
                ~SkippedDep(relevant_deps(calls[n].package)[j]) =>
                   /\ \A i \in DOMAIN calls[n].sols :
                         relevant_deps(calls[n].package)[j] \in calls[n].sols[i].visited_names
                   /\ provided_by(upstream_system, relevant_deps(calls[n].package)[j]) = <<>>
                        => DepAlgoNotProvided(relevant_deps(calls[n].package)[j],
                                              calls[n].package) \in calls[n].problems_out

\* the driver: an invalid solution is carried on unless a call made for it ran
\* into a dep cycle
C23_DriverKeepsInvalidButCycles ==
    (pc = "solve" /\ next_package <= Len(packages) /\ pc' = "solve") =>
       \A i \in DOMAIN current_solutions :
          ~current_solutions[i].is_valid =>
             \/ \E k \in DOMAIN current_solutions' :
                   /\ ~current_solutions'[k].is_valid
                   /\ Descends(current_solutions'[k], current_solutions[i])
             \/ \E k \in DOMAIN calls' :
                   /\ IsDepCycle(calls'[k].package, calls'[k].solution)
                   /\ IsPrefix(current_solutions[i].visited_packages,
                               calls'[k].solution.visited_packages)

\* C23: a branch made invalid by a conflict or an unprovided dep is not pruned
\* during the pass, unless it runs into a dep cycle: the remaining deps of the
\* package that are not skipped are processed on it, each of them without
\* upstream provider adds its NotProvided problem, and but for the cycles
\* only the driver drops the branch, after the last requested package.
C23_InvalidPrunedByCyclesOnly ==
    []C23_CallsKeepInvalidButCycles /\ [][C23_DriverKeepsInvalidButCycles]_vars

\* the last requested package was expanded and left an invalid solution for
\* the driver to drop; the first dep of a package made it invalid and a later
\* dep added its own NotProvided problem
C23_Witness ==
    /\ pc = "solve"
    /\ next_package > Len(packages)
    /\ \E i \in DOMAIN current_solutions : ~current_solutions[i].is_valid
    /\ \E n \in DOMAIN calls :
          /\ InvalidByFirstDep(calls[n])
          /\ \E j \in LaterDeps(calls[n]) :
                /\ provided_by(upstream_system, relevant_deps(calls[n].package)[j]) = <<>>
                /\ DepAlgoNotProvided(relevant_deps(calls[n].package)[j], calls[n].package)
                      \in found_problems

\* the log entries of the last step
HeapLog == IF last_call = <<>> THEN {} ELSE Range(last_call.log)

\* C24: a call of solutions_for_dep_problem leaves the solution it is given
\* as it was (packages_in_solution, visited_packages, visited_names,
\* is_valid), and the solutions it returns are objects of their own: made
\* during the call, so none is the solution given or a solution of another
\* branch, and no two of them the same object, so that a change of one
\* changes no other; what the step returns is what it returns when solutions
\* are values.
C24_SolutionsIndependent ==
    /\ \A e \in HeapLog :
          /\ e.after = e.before
          /\ \A i \in DOMAIN e.sols :
                /\ e.sols[i] > e.allocated
                /\ \A j \in DOMAIN e.sols : e.sols[i] = e.sols[j] => i = j
    /\ last_call # <<>> =>
          /\ last_call.raised = last_call.by_value.raised
          /\ ~last_call.raised =>
                /\ [i \in DOMAIN last_call.sols |-> last_call.heap[last_call.sols[i]]]
                      = last_call.by_value.sols
                /\ \A i, j \in DOMAIN last_call.sols :
                      last_call.sols[i] = last_call.sols[j] => i = j

\* a call on a solution that holds packages returned two branches, one of
\* them marked invalid afterwards and the other one valid, both with the
\* package appended
C24_Witness ==
    \E e \in HeapLog :
       /\ e.before.visited_packages # <<>>
       /\ \E i, j \in DOMAIN e.sols :
             /\ e.values[i].is_valid
             /\ ~e.values[j].is_valid
             /\ Len(e.values[i].packages_in_solution) > Len(e.before.packages_in_solution)
             /\ Len(e.values[j].packages_in_solution) > Len(e.before.packages_in_solution)

\* the packages of the system the plan leads to
ResultingSystem(plan) == KeysOf(hypothetical_append_packages_to_system(last_call.self, plan))

\* the positions of the plans given whose resulting system holds every needed name
ValidPlans ==
    {i \in DOMAIN last_call.solutions :
       KeepsNeeded(last_call.self, last_call.solutions[i], last_call.needed_packages)}

\* validate_and_choose_solution has just returned or printed its first prompt
ValidatedNow ==
    /\ last_call.method = "validate_and_choose_solution"
    /\ pc \in {"chosen", "choosing"}
    /\ last_call.user_input = 0

\* C25: validate_and_choose_solution never asks the user to choose between
\* two plans with the same resulting system: when all valid plans lead to the
\* same system, the first valid plan is returned without a prompt; otherwise
\* the user is asked, the plans offered are valid plans with pairwise
\* different resulting systems, and every valid plan leads to the system of
\* a plan offered.
C25_NoChoiceBetweenEqualSystems ==
    ValidatedNow =>
       IF \A i, j \in ValidPlans :
             ResultingSystem(last_call.solutions[i]) = ResultingSystem(last_call.solutions[j])
       THEN /\ pc = "chosen"
            /\ \E i \in ValidPlans :
                  /\ last_call.result = last_call.solutions[i]
                  /\ \A j \in ValidPlans : i <= j
       ELSE /\ pc = "choosing"
            /\ \A k \in DOMAIN last_call.choices : last_call.choices[k] \in ValidPlans
            /\ \A k, l \in DOMAIN last_call.choices :
                  ResultingSystem(last_call.solutions[last_call.choices[k]])
                     = ResultingSystem(last_call.solutions[last_call.choices[l]]) => k = l
            /\ \A i \in ValidPlans :
                  \E k \in DOMAIN last_call.choices :
                     ResultingSystem(last_call.solutions[i])
                        = ResultingSystem(last_call.solutions[last_call.choices[k]])

\* the user is asked to choose between two plans, a third valid plan being
\* left out for leading to the system of one of them
C25_Witness ==
    /\ ValidatedNow
    /\ pc = "choosing"
    /\ Len(last_call.choices) = 2
    /\ Cardinality(ValidPlans) = 3

\* all valid plans lead to one system and the first of them is returned
\* without a prompt
C25_WitnessEqualSystems ==
    /\ ValidatedNow
    /\ pc = "chosen"
    /\ Cardinality(ValidPlans) >= 2

\* the packages of this system and of the i-th other system of the call
OwnPackages == KeysOf(last_call.self)
OtherPackages(i) == KeysOf(last_call.other_systems[i])

\* C26: for a list of other systems that is not empty,
\* differences_between_systems returns as common installed the packages that
\* are in every other system and not in this one, as common removed the
\* packages of this system that are in none of the others, and for the i-th
\* other system what it has more than this one without the common installed
\* and what it has less without the common removed; common and single part
\* are disjoint and together they are the difference between this system and
\* the i-th.
C26_CommonAndSingleDifferences ==
    last_call.method = "differences_between_systems" =>
       /\ last_call.result.common.installed =
             {p \in OtherPackages(1) :
                p \notin OwnPackages /\ \A i \in DOMAIN last_call.other_systems : p \in OtherPackages(i)}
       /\ last_call.result.common.uninstalled =
             {p \in OwnPackages : \A i \in DOMAIN last_call.other_systems : p \notin OtherPackages(i)}
       /\ DOMAIN last_call.result.single = DOMAIN last_call.other_systems
       /\ \A i \in DOMAIN last_call.other_systems :
             /\ last_call.result.single[i].installed =
                   (OtherPackages(i) \ OwnPackages) \ last_call.result.common.installed
             /\ last_call.result.single[i].uninstalled =
                   (OwnPackages \ OtherPackages(i)) \ last_call.result.common.uninstalled
             /\ last_call.result.single[i].installed \cap last_call.result.common.installed = {}
             /\ last_call.result.single[i].uninstalled \cap last_call.result.common.uninstalled = {}
             /\ last_call.result.single[i].installed \cup last_call.result.common.installed
                   = OtherPackages(i) \ OwnPackages
             /\ last_call.result.single[i].uninstalled \cup last_call.result.common.uninstalled
                   = OwnPackages \ OtherPackages(i)

\* two other systems with a common and a single part on both sides: both have
\* a package this system lacks and both lack a package of it, one of them
\* has a further package and lacks a further one
C26_Witness ==
    /\ last_call.method = "differences_between_systems"
    /\ Len(last_call.other_systems) = 2
    /\ last_call.result.common.installed # {}
    /\ last_call.result.common.uninstalled # {}
    /\ \E i \in DOMAIN last_call.result.single : last_call.result.single[i].installed # {}
    /\ \E i \in DOMAIN last_call.result.single : last_call.result.single[i].uninstalled # {}

\* C27: the requested packages being packages of the upstream system, every
\* plan dep_solving returns holds each requested package and holds no package
\* twice, and the run raises InvalidInput only where the caller builds the
\* upstream and the installed system: never in the systems
\* solutions_for_dep_problem builds over visited_packages and
\* packages_in_solution.
C27_PlansHoldRequestedOnce ==
    /\ \A i \in DOMAIN packages : PkgIn(packages[i], upstream_packages)
    /\ pc = "returned" =>
          \A k \in DOMAIN returned :
             /\ \A i \in DOMAIN packages : PkgIn(packages[i], returned[k])
             /\ \A i, j \in DOMAIN returned[k] :
                   returned[k][i].name = returned[k][j].name => i = j
    /\ pc = "raised" =>
          System(upstream_packages).raised \/ System(installed_packages).raised
    /\ \A n \in DOMAIN calls :
          /\ ~System(calls[n].solution.visited_packages).raised
          /\ ~System(calls[n].solution.packages_in_solution).raised
          /\ \A i \in DOMAIN calls[n].sols :
                ~System(calls[n].sols[i].packages_in_solution).raised

\* two packages were requested, the second one being a dep of the first: it
\* was in the plan already when its turn came, and the plan returned holds
\* it once
C27_Witness ==
    /\ pc = "returned"
    /\ Len(packages) = 2
    /\ returned # <<>>
    /\ \E k \in DOMAIN returned :
          PkgIndex(packages[2], returned[k]) < PkgIndex(packages[1], returned[k])
    /\ \E n \in DOMAIN calls :
          /\ PkgEq(calls[n].package, packages[2])
          /\ PkgIn(packages[2], calls[n].solution.packages_in_solution)

====
